---------------------------- MODULE Spec2Model ----------------------------
(***************************************************************************)
(* Model of the AI batch metadata pipeline of image-processor:             *)
(*   src/BATCH_PROCESSING_IMPLEMENTATION.py  (automated batch, "auto")     *)
(*   src/advanced_image_processor.py         (batch AI, compression,       *)
(*                                            metadata save paths)         *)
(*                                                                         *)
(* Tk calls made for display only (log_message, add_chat_message,          *)
(* root.after, messagebox) are modelled as returning normally.             *)
(***************************************************************************)
EXTENDS Integers, Sequences, FiniteSets, TLC

\* ------------------------------------------------------------------ bounds
\* Largest number of images a selected folder lists.
MaxImages == 2

\* Worker threads that can exist at the same time (threading.Thread objects).
Threads == {"t1", "t2"}

\* ------------------------------------------------------------------ files
\* An image path: directory, stem and suffix as pathlib splits them.
ImagePath(d, s, e) == [dir |-> d, stem |-> s, suffix |-> e]

\* The files a folder can hold, in listing order; a selected folder lists a prefix.
FolderListing ==
    << ImagePath("kitchens", "F032_a", ".jpg"),
       ImagePath("kitchens", "F032_b", ".webp"),
       ImagePath("kitchens", "F032_c", ".JPG"),
       ImagePath("kitchens", "F032_d", ".png"),
       ImagePath("kitchens", "F032_e", ".jpeg"),
       ImagePath("kitchens", "F032_f", ".jpg") >>

\* _load_images_from_folder: the list of images of a folder holding n files.
load_images_from_folder(n) == SubSeq(FolderListing, 1, n)

\* str.lower() on a suffix.
Lower(e) ==
    CASE e = ".JPG"  -> ".jpg"
      [] e = ".JPEG" -> ".jpeg"
      [] e = ".WEBP" -> ".webp"
      [] OTHER       -> e

\* The image files the metadata tabs and the batch threads can be pointed at:
\* two share a basename, one has a suffix no save path supports.
SaveFiles ==
    { ImagePath("kitchens", "F032_a", ".jpg"),
      ImagePath("bathrooms", "F032_a", ".jpg"),
      ImagePath("kitchens", "F032_b", ".webp"),
      ImagePath("kitchens", "F032_d", ".png") }

NoFile == ImagePath("", "", "")

\* ------------------------------------------------------------------ state
VARIABLES
    chat_folder_images,  \* self.chat_folder_images (AI chat tab)
    batch_folder,        \* self.batch_folder: "none" or "set"
    image_files,         \* self.image_files (batch tab)
    ai_processing,       \* self.ai_processing
    tool_use_enabled,    \* self.tool_use_enabled
    chat_tool_use_var,   \* self.chat_tool_use_var: the tool use checkbox of the chat tab
    kind,                \* per thread: "none" | "auto" | "ai"
    pc,                  \* per thread: position in its target function
    images,              \* per thread: the list object the for loop iterates
    idx,                 \* per thread: images the loop has gone through
    success_count,       \* per thread: success_count / successful
    error_count,         \* per thread: error_count / failed
    original_tool_use,   \* per thread: local original_tool_use
    folder_analysis,     \* per thread: local folder_analysis ("null" | "text") until the
                         \* loop takes its first image (line 213 is its only reader)
    progress,            \* per thread: the last progress update it handed to the main loop
    summary,             \* per thread: the final message of the run
    rules_text,          \* per thread: the thread's argument (auto): "blank" | "text"
    inflight,            \* model calls awaiting their response: <<thread, image index>>
    fs_ok,               \* environment: file writes and the external tool succeed
    is_processing,       \* self.is_processing (compression tab)
    cpc,                 \* per compression thread: position in process_images_thread
    ci,                  \* per compression thread: images the loop has gone through
    ctotal,              \* per compression thread: total_images
    stats,               \* self.stats: processed and errors
    progress_queue,      \* self.progress_queue: the complete / error messages in it
    last_message,        \* the complete / error message check_queue showed last
    display_writers,     \* the threads ("main", "worker") that have written a Tk widget
    content,             \* per image file: "original" | "edited" | "partial"
    temps,               \* the temp files that exist in tempfile.gettempdir()
    ui_pc,               \* main thread: position in save_metadata / save_simple_metadata
    ui_op,               \* main thread: "main" (save_metadata) | "simple"
    ui_file,             \* main thread: original_file_path of the save
    ui_result,           \* main thread: how the last save ended
    wfile,               \* per batch thread: the file its direct save has open
    m_pc,                \* metadata call: "idle" | "called" | "saved" | "parsed" | "returned"
    m_call,              \* metadata call: the function called and its argument
    m_out                \* metadata call: what the function produced

vars == << chat_folder_images, batch_folder, image_files, ai_processing,
           tool_use_enabled, chat_tool_use_var,
           kind, pc, images, idx, success_count, error_count,
           original_tool_use, folder_analysis, progress, summary, rules_text, inflight, fs_ok,
           is_processing, cpc, ci, ctotal, stats, progress_queue, last_message,
           display_writers,
           content, temps, ui_pc, ui_op, ui_file, ui_result, wfile,
           m_pc, m_call, m_out >>

metaVars == << m_pc, m_call, m_out >>

saveVars == << content, temps, ui_pc, ui_op, ui_file, ui_result, wfile >>

compressVars == << is_processing, cpc, ci, ctotal, stats, progress_queue, last_message,
                   display_writers >>

globals == << chat_folder_images, batch_folder, image_files, chat_tool_use_var >>

NoSummary == [type |-> "none"]

\* No progress update has been made by the thread.
NoProgress == [index |-> 0]

\* No metadata function has been called.
NoCall == [fn |-> "none"]

\* The application after construction, apart from the metadata call.
InitProgram ==
    /\ chat_folder_images = << >>
    /\ batch_folder = "none"
    /\ image_files = << >>
    /\ ai_processing = FALSE
    /\ tool_use_enabled = FALSE
    /\ chat_tool_use_var = FALSE
    /\ kind = [t \in Threads |-> "none"]
    /\ pc = [t \in Threads |-> "idle"]
    /\ images = [t \in Threads |-> << >>]
    /\ idx = [t \in Threads |-> 0]
    /\ success_count = [t \in Threads |-> 0]
    /\ error_count = [t \in Threads |-> 0]
    /\ original_tool_use = [t \in Threads |-> FALSE]
    /\ folder_analysis = [t \in Threads |-> "none"]
    /\ progress = [t \in Threads |-> NoProgress]
    /\ summary = [t \in Threads |-> NoSummary]
    /\ rules_text = [t \in Threads |-> "none"]
    /\ inflight = {}
    /\ fs_ok = TRUE
    /\ is_processing = FALSE
    /\ cpc = [t \in Threads |-> "idle"]
    /\ ci = [t \in Threads |-> 0]
    /\ ctotal = [t \in Threads |-> 0]
    /\ stats = [processed |-> 0, errors |-> 0]
    /\ progress_queue = << >>
    /\ last_message = NoSummary
    /\ display_writers = {}
    /\ content = [f \in SaveFiles |-> "original"]
    /\ temps = {}
    /\ ui_pc = "idle"
    /\ ui_op = "none"
    /\ ui_file = NoFile
    /\ ui_result = "none"
    /\ wfile = [t \in Threads |-> NoFile]

Init ==
    /\ InitProgram
    /\ m_pc = "idle"
    /\ m_call = NoCall
    /\ m_out = NoCall

\* A thread object that is not running: never started, or its target returned.
Free(t) == pc[t] \in {"idle", "done"}

\* threading.Thread(target=...).start(): a fresh thread at the top of its target.
Spawn(t, k, rules) ==
    /\ kind' = [kind EXCEPT ![t] = k]
    /\ rules_text' = [rules_text EXCEPT ![t] = rules]
    /\ pc' = [pc EXCEPT ![t] = "started"]
    /\ images' = [images EXCEPT ![t] = << >>]
    /\ idx' = [idx EXCEPT ![t] = 0]
    /\ success_count' = [success_count EXCEPT ![t] = 0]
    /\ error_count' = [error_count EXCEPT ![t] = 0]
    /\ original_tool_use' = [original_tool_use EXCEPT ![t] = FALSE]
    /\ folder_analysis' = [folder_analysis EXCEPT ![t] = "none"]
    /\ progress' = [progress EXCEPT ![t] = NoProgress]
    /\ summary' = [summary EXCEPT ![t] = NoSummary]

workerVars == << kind, pc, images, idx, success_count, error_count,
                 original_tool_use, folder_analysis, progress, summary, rules_text >>


\* ------------------------------------------------------------- helpers
\* _update_batch_progress(current, total, filename), called on the worker
\* thread: root.after(0, update) hands "Processing {current}/{total}:
\* {filename}" to the main loop.
update_batch_progress(t, current, total, filename) ==
    progress' = [progress EXCEPT ![t] =
                    [index |-> current, total |-> total, filename |-> filename]]

\* A loop that forgets to count a failure.
CountErrorOmitted(c) == c

\* error_count += 1 / failed += 1
CountError(c) == c + 1

\* success_count += 1 / successful += 1
CountSuccess(c) == c + 1

\* A call site that goes on without sending anything.
CallNotSent(t, i) == UNCHANGED inflight

\* requests.post(url, json=payload, headers=headers, timeout=60) blocks the
\* calling thread until the response or the timeout: the call is in flight.
IssueCall(t, i) == inflight' = inflight \cup {<<t, i>>}
CallOver(t, i) == inflight' = inflight \ {<<t, i>>}

\* What a vision call hands back to its caller:
\*   "null"   : non-200 status, no choices, timeout or any exception
\*   "empty"  : a text in which _parse_ai_response_for_metadata finds no field
\*   "fields" : a text from which it extracts at least one field
Responses == {"null", "empty", "fields"}

\* _parse_ai_response_for_metadata, as far as its callers test it: is the
\* returned dict non-empty?
ParsedNonEmpty(resp) == resp = "fields"

\* How a call ends: it returns True, False or None, or it raises.
\* A body with no "except Exception": what is raised leaves the function.
Uncaught(outcome) == outcome

\* try: <body> except Exception: ...; return False
Caught(outcome) == IF outcome = "raise" THEN "False" ELSE outcome

\* _save_jpeg_metadata_direct: image.save writes the file in place and
\* raises when the write fails; any exception is caught and answered False.
jpeg_direct_outcome(io) == Caught(IF io THEN "True" ELSE "raise")
save_jpeg_metadata_direct(io) == jpeg_direct_outcome(io) = "True"

\* _save_webp_metadata_direct: builds cmd from self.exiftool_path, an
\* attribute no code of the class assigns: AttributeError, caught, False.
webp_direct_outcome(io) == Caught("raise")
save_webp_metadata_direct(io) == webp_direct_outcome(io) = "True"

\* The backend a save function picks for a path: file_ext is the lower-cased
\* suffix.
Backend(path) ==
    IF Lower(path.suffix) \in {".jpg", ".jpeg"} THEN "jpeg"
    ELSE IF Lower(path.suffix) = ".webp" THEN "webp"
    ELSE "none"

\* _save_metadata_to_file: dispatch on the lower-cased suffix.
metadata_to_file_outcome(path, io) ==
    Caught(CASE Backend(path) = "jpeg" -> jpeg_direct_outcome(io)
             [] Backend(path) = "webp" -> webp_direct_outcome(io)
             [] OTHER                  -> "False")
save_metadata_to_file(path, io) == metadata_to_file_outcome(path, io) = "True"

\* _save_jpeg_metadata(image, file_path, metadata_dict, custom_fields, config=None)
\* and _save_webp_metadata(image, file_path, metadata_dict, custom_fields):
\* number of required positional arguments after self.
JpegSaveRequiredArgs == 4
WebpSaveRequiredArgs == 4
\* _save_metadata_for_batch passes (image_path, metadata).
BatchSaveGivenArgs == 2

\* A Python call binds only when every required positional is given;
\* otherwise TypeError before the body runs.
CallBinds(given, required) == given >= required

\* _save_jpeg_metadata / _save_webp_metadata as _save_metadata_for_batch
\* calls them: TypeError when the call does not bind; the functions have no
\* return statement, so a call that binds answers None, or raises when the
\* write fails in the fallback of the except branch.
batch_backend_outcome(required, io) ==
    IF ~CallBinds(BatchSaveGivenArgs, required) THEN "raise"
    ELSE IF io THEN "None" ELSE "raise"

\* _save_metadata_for_batch: dispatch on the suffix; the TypeError of the call
\* is caught by its own except and answered False.
metadata_for_batch_outcome(path, io) ==
    Caught(CASE Backend(path) = "jpeg" -> batch_backend_outcome(JpegSaveRequiredArgs, io)
             [] Backend(path) = "webp" -> batch_backend_outcome(WebpSaveRequiredArgs, io)
             [] OTHER                  -> "False")
save_metadata_for_batch(path, io) == metadata_for_batch_outcome(path, io) = "True"

\* The formats the codec is meant to persist.
SupportedSuffix(path) == Lower(path.suffix) \in {".jpg", ".jpeg", ".webp"}

\* ------------------------------------------------------ folder selection
\* select_chat_folder: the dialog returned a folder holding n images.
select_chat_folder(n) ==
    /\ chat_folder_images' = load_images_from_folder(n)
    /\ UNCHANGED << batch_folder, image_files, chat_tool_use_var, ai_processing, tool_use_enabled,
                    workerVars, inflight, fs_ok >>
    /\ UNCHANGED << compressVars, saveVars, metaVars >>

\* select_ai_folder / select_batch_folder.
select_ai_folder(n) ==
    /\ batch_folder' = "set"
    /\ image_files' = load_images_from_folder(n)
    /\ UNCHANGED << chat_folder_images, chat_tool_use_var, ai_processing, tool_use_enabled,
                    workerVars, inflight, fs_ok >>
    /\ UNCHANGED << compressVars, saveVars, metaVars >>

\* Environment: the disk or the external tool starts or stops failing.
fs_change ==
    /\ fs_ok' = ~fs_ok
    /\ UNCHANGED << globals, ai_processing, tool_use_enabled, workerVars,
                    inflight >>
    /\ UNCHANGED << compressVars, saveVars, metaVars >>

\* ------------------------------------------------------------- starting
\* start_automated_batch: rules is the rules text after strip() ("blank" when
\* empty), confirm is the answer to the askyesno dialog.
start_automated_batch(t, rules, confirm) ==
    /\ Free(t)
    /\ IF chat_folder_images = << >> \/ rules = "blank" \/ ~confirm
       THEN UNCHANGED workerVars
       ELSE Spawn(t, "auto", rules)
    /\ UNCHANGED << globals, ai_processing, tool_use_enabled, inflight, fs_ok >>
    /\ UNCHANGED << compressVars, saveVars, metaVars >>

\* start_batch_ai_processing: aiEnabled is self.ai_enabled.get(); chat_messages
\* always holds at least the initial system message, so that test passes.
start_batch_ai_processing(t, aiEnabled, confirm) ==
    /\ Free(t)
    /\ IF batch_folder = "none" \/ ~aiEnabled \/ ~confirm
       THEN UNCHANGED workerVars
       ELSE Spawn(t, "ai", "none")
    /\ UNCHANGED << globals, ai_processing, tool_use_enabled, inflight, fs_ok >>
    /\ UNCHANGED << compressVars, saveVars, metaVars >>

\* ------------------------------------------------------ thread-local frames
\* The thread's target returned: its locals are gone, its last message stays.
Return(t, msg) ==
    /\ pc' = [pc EXCEPT ![t] = "done"]
    /\ summary' = [summary EXCEPT ![t] = msg]
    /\ UNCHANGED << kind, rules_text >>
    /\ images' = [images EXCEPT ![t] = << >>]
    /\ idx' = [idx EXCEPT ![t] = 0]
    /\ success_count' = [success_count EXCEPT ![t] = 0]
    /\ error_count' = [error_count EXCEPT ![t] = 0]
    /\ original_tool_use' = [original_tool_use EXCEPT ![t] = FALSE]
    /\ folder_analysis' = [folder_analysis EXCEPT ![t] = "none"]
    /\ progress' = [progress EXCEPT ![t] = NoProgress]

\* The image at the loop cursor ends as a failure: count it and go on.
ImageFailed(t) ==
    /\ error_count' = [error_count EXCEPT ![t] = CountError(@)]
    /\ idx' = [idx EXCEPT ![t] = @ + 1]
    /\ pc' = [pc EXCEPT ![t] = "loop"]
    /\ UNCHANGED success_count

\* The image at the loop cursor ends as a success.
ImageSucceeded(t) ==
    /\ success_count' = [success_count EXCEPT ![t] = CountSuccess(@)]
    /\ idx' = [idx EXCEPT ![t] = @ + 1]
    /\ pc' = [pc EXCEPT ![t] = "loop"]
    /\ UNCHANGED error_count

\* A loop that sends the vision call and moves on without waiting for it.
DispatchWithoutWaiting(t) ==
    /\ IssueCall(t, idx[t] + 1)
    /\ idx' = [idx EXCEPT ![t] = @ + 1]
    /\ UNCHANGED << pc, success_count, error_count >>

\* The vision call for the image at the loop cursor is sent; the thread blocks.
AwaitResponse(t) ==
    /\ IssueCall(t, idx[t] + 1)
    /\ pc' = [pc EXCEPT ![t] = "call"]
    /\ UNCHANGED << idx, success_count, error_count >>

\* ------------------------------------------- _automated_batch_thread ("auto")
\* Summary of a completed automated run: the three sinks carry the same text,
\* "Success: {success_count}, Errors: {error_count}".
AutoSummary(t) ==
    [type |-> "complete", succeeded |-> success_count[t], failed |-> error_count[t]]

\* The outer except: "Batch processing error: {e}".
ErrorSummary == [type |-> "error"]

\* Lines 183-211: parse the rules, take chat_folder_images[0] for the folder,
\* switch tool use on and send the folder analysis call.  An empty list raises
\* IndexError, which only the outer except catches.
automated_batch_begin(t) ==
    /\ kind[t] = "auto" /\ pc[t] = "started"
    /\ IF chat_folder_images = << >>
       THEN /\ Return(t, ErrorSummary)
            /\ UNCHANGED << tool_use_enabled, inflight >>
       ELSE /\ original_tool_use' = [original_tool_use EXCEPT ![t] = tool_use_enabled]
            /\ tool_use_enabled' = TRUE
            /\ IssueCall(t, 0)
            /\ pc' = [pc EXCEPT ![t] = "analysis"]
            /\ UNCHANGED << kind, rules_text, summary, images, idx,
                            success_count, error_count, folder_analysis, progress >>
    /\ UNCHANGED << globals, ai_processing, fs_ok >>
    /\ UNCHANGED << compressVars, saveVars, metaVars >>

\* What _call_tool_use_api_with_tools hands back: _call_tool_use_api answers
\* None for a non-200 status, a payload without choices and every exception
\* (lines 6263-6353), the text of the message otherwise.
AnalysisResults == {"null", "text"}

\* Lines 211-226: the analysis call is back (text or None); restore tool use,
\* zero the counters and enter the loop over the list as it is now.
automated_batch_analysed(t, analysis) ==
    /\ kind[t] = "auto" /\ pc[t] = "analysis"
    /\ CallOver(t, 0)
    /\ folder_analysis' = [folder_analysis EXCEPT ![t] = analysis]
    /\ tool_use_enabled' = original_tool_use[t]
    /\ images' = [images EXCEPT ![t] = chat_folder_images]
    /\ success_count' = [success_count EXCEPT ![t] = 0]
    /\ error_count' = [error_count EXCEPT ![t] = 0]
    /\ pc' = [pc EXCEPT ![t] = "loop"]
    /\ UNCHANGED << globals, ai_processing, kind, rules_text, idx,
                    original_tool_use, progress, summary, fs_ok >>
    /\ UNCHANGED << compressVars, saveVars, metaVars >>

\* Lines 226-233 and 291-329: next image; open() of the image may raise, which
\* _process_image_with_batch_context answers with None; else the vision call
\* is sent.
automated_batch_next_image(t, readable) ==
    /\ kind[t] = "auto" /\ pc[t] = "loop" /\ idx[t] < Len(images[t])
    /\ update_batch_progress(t, idx[t] + 1, Len(chat_folder_images), images[t][idx[t] + 1])
    /\ folder_analysis' = [folder_analysis EXCEPT ![t] = "none"]
    /\ IF readable
       THEN AwaitResponse(t)
       ELSE ImageFailed(t) /\ UNCHANGED inflight
    /\ UNCHANGED << globals, ai_processing, tool_use_enabled, kind, rules_text,
                    images, original_tool_use, summary, fs_ok >>
    /\ UNCHANGED << compressVars, saveVars, metaVars >>

\* Lines 329-336 and 235-247: the response is back; None or an empty record
\* counts an error, a non-empty record goes on to the save.
automated_batch_call_returns(t, resp) ==
    /\ kind[t] = "auto" /\ pc[t] = "call"
    /\ CallOver(t, idx[t] + 1)
    /\ IF resp # "null" /\ ParsedNonEmpty(resp)
       THEN /\ pc' = [pc EXCEPT ![t] = "persist"]
            /\ UNCHANGED << idx, success_count, error_count >>
       ELSE ImageFailed(t)
    /\ UNCHANGED << globals, ai_processing, tool_use_enabled, kind, rules_text,
                    images, original_tool_use, folder_analysis, progress, summary, fs_ok >>
    /\ UNCHANGED << compressVars, saveVars, metaVars >>

\* Lines 237-244: _save_metadata_for_batch and the count of its answer (the
\* bytes a save leaves in the file are followed in SpecSave).
automated_batch_persist(t) ==
    /\ kind[t] = "auto" /\ pc[t] = "persist"
    /\ LET path == images[t][idx[t] + 1]
       IN IF save_metadata_for_batch(path, fs_ok)
          THEN ImageSucceeded(t)
          ELSE ImageFailed(t)
    /\ UNCHANGED << globals, ai_processing, tool_use_enabled, kind, rules_text,
                    images, original_tool_use, folder_analysis, progress, summary, inflight,
                    fs_ok >>
    /\ UNCHANGED << compressVars, saveVars, metaVars >>

\* Lines 253-256: the list is exhausted; the completion message.
automated_batch_complete(t) ==
    /\ kind[t] = "auto" /\ pc[t] = "loop" /\ idx[t] = Len(images[t])
    /\ Return(t, AutoSummary(t))
    /\ UNCHANGED << globals, ai_processing, tool_use_enabled, inflight, fs_ok >>
    /\ UNCHANGED << compressVars, saveVars, metaVars >>

\* --------------------------------------------- _process_batch_ai_thread ("ai")
\* Line 5809: "Results: {successful} successful, {failed} failed out of
\* {total_images} total".
AiSummary(t) ==
    [type |-> "complete", succeeded |-> success_count[t], failed |-> error_count[t],
     total |-> Len(images[t])]

\* Lines 5769-5783: set ai_processing, extract the rules, zero the counters and
\* enter the loop over self.image_files.
batch_ai_begin(t) ==
    /\ kind[t] = "ai" /\ pc[t] = "started"
    /\ ai_processing' = TRUE
    /\ images' = [images EXCEPT ![t] = image_files]
    /\ success_count' = [success_count EXCEPT ![t] = 0]
    /\ error_count' = [error_count EXCEPT ![t] = 0]
    /\ pc' = [pc EXCEPT ![t] = "loop"]
    /\ UNCHANGED << globals, tool_use_enabled, kind, rules_text, idx,
                    original_tool_use, folder_analysis, progress, summary, inflight, fs_ok >>
    /\ UNCHANGED << compressVars, saveVars, metaVars >>

\* Lines 5783-5789 and 5843-5879: next image; open() may raise, which
\* _process_single_image_ai answers with False; else the vision call is sent.
batch_ai_next_image(t, readable) ==
    /\ kind[t] = "ai" /\ pc[t] = "loop" /\ idx[t] < Len(images[t])
    /\ update_batch_progress(t, idx[t] + 1, Len(images[t]), images[t][idx[t] + 1])
    /\ IF readable
       THEN AwaitResponse(t)
       ELSE ImageFailed(t) /\ UNCHANGED inflight
    /\ UNCHANGED << globals, ai_processing, tool_use_enabled, kind, rules_text,
                    images, original_tool_use, folder_analysis, summary, fs_ok >>
    /\ UNCHANGED << compressVars, saveVars, metaVars >>

\* Lines 5879-5890 and 5791-5798: the response is back.
batch_ai_call_returns(t, resp) ==
    /\ kind[t] = "ai" /\ pc[t] = "call"
    /\ CallOver(t, idx[t] + 1)
    /\ IF resp # "null" /\ ParsedNonEmpty(resp)
       THEN /\ pc' = [pc EXCEPT ![t] = "persist"]
            /\ UNCHANGED << idx, success_count, error_count >>
       ELSE ImageFailed(t)
    /\ UNCHANGED << globals, ai_processing, tool_use_enabled, kind, rules_text,
                    images, original_tool_use, folder_analysis, progress, summary, fs_ok >>
    /\ UNCHANGED << compressVars, saveVars, metaVars >>

\* Lines 5887-5888 and 5791-5801: _save_metadata_to_file and the count of its
\* answer (the bytes a save leaves in the file are followed in SpecSave).
batch_ai_persist(t) ==
    /\ kind[t] = "ai" /\ pc[t] = "persist"
    /\ LET path == images[t][idx[t] + 1]
       IN IF save_metadata_to_file(path, fs_ok)
          THEN ImageSucceeded(t)
          ELSE ImageFailed(t)
    /\ UNCHANGED << globals, ai_processing, tool_use_enabled, kind, rules_text,
                    images, original_tool_use, folder_analysis, progress, summary, inflight,
                    fs_ok >>
    /\ UNCHANGED << compressVars, saveVars, metaVars >>

\* Lines 5807-5817: the results line, then finally: ai_processing = False.
batch_ai_complete(t) ==
    /\ kind[t] = "ai" /\ pc[t] = "loop" /\ idx[t] = Len(images[t])
    /\ Return(t, AiSummary(t))
    /\ ai_processing' = FALSE
    /\ UNCHANGED << globals, tool_use_enabled, inflight, fs_ok >>
    /\ UNCHANGED << compressVars, saveVars, metaVars >>

\* ------------------------------------------------------------ tool use
\* toggle_chat_tool_use: the checkbox of the chat tab is clicked; Tk flips
\* chat_tool_use_var and calls the command, which copies it.
toggle_chat_tool_use ==
    /\ chat_tool_use_var' = ~chat_tool_use_var
    /\ tool_use_enabled' = chat_tool_use_var'
    /\ UNCHANGED << chat_folder_images, batch_folder, image_files, ai_processing,
                    workerVars, inflight, fs_ok >>
    /\ UNCHANGED << compressVars, saveVars, metaVars >>

\* ------------------------------------------------------------ specification
Next ==
    \/ \E n \in 0..MaxImages : select_chat_folder(n)
    \/ \E n \in 0..MaxImages : select_ai_folder(n)
    \/ fs_change
    \/ \E t \in Threads, r \in {"blank", "text"}, c \in BOOLEAN :
          start_automated_batch(t, r, c)
    \/ \E t \in Threads, a \in BOOLEAN, c \in BOOLEAN : start_batch_ai_processing(t, a, c)
    \/ \E t \in Threads : automated_batch_begin(t)
    \/ \E t \in Threads, a \in AnalysisResults : automated_batch_analysed(t, a)
    \/ \E t \in Threads, r \in BOOLEAN : automated_batch_next_image(t, r)
    \/ \E t \in Threads, resp \in Responses : automated_batch_call_returns(t, resp)
    \/ \E t \in Threads : automated_batch_persist(t)
    \/ \E t \in Threads : automated_batch_complete(t)
    \/ \E t \in Threads : batch_ai_begin(t)
    \/ \E t \in Threads, r \in BOOLEAN : batch_ai_next_image(t, r)
    \/ \E t \in Threads, resp \in Responses : batch_ai_call_returns(t, resp)
    \/ \E t \in Threads : batch_ai_persist(t)
    \/ \E t \in Threads : batch_ai_complete(t)

Spec == Init /\ [][Next]_vars

\* The automated batch of the chat tab next to the tool use checkbox.
NextToolUse ==
    \/ \E n \in 0..MaxImages : select_chat_folder(n)
    \/ toggle_chat_tool_use
    \/ \E t \in Threads, r \in {"blank", "text"}, c \in BOOLEAN :
          start_automated_batch(t, r, c)
    \/ \E t \in Threads : automated_batch_begin(t)
    \/ \E t \in Threads, a \in AnalysisResults : automated_batch_analysed(t, a)
    \/ \E t \in Threads, r \in BOOLEAN : automated_batch_next_image(t, r)
    \/ \E t \in Threads, resp \in Responses : automated_batch_call_returns(t, resp)
    \/ \E t \in Threads : automated_batch_persist(t)
    \/ \E t \in Threads : automated_batch_complete(t)

SpecToolUse == Init /\ [][NextToolUse]_vars


\* ------------------------------------------------ compression (is_processing)
\* Messages waiting in progress_queue before start_compression is taken again.
MaxQueue == 2

compressThreadVars == << cpc, ci, ctotal >>

\* The batch state, which no compression step touches.
batchVars == << globals, ai_processing, tool_use_enabled, workerVars, inflight,
                fs_ok >>

\* progress_queue.put((message_type, message)) for the two types that end a run.
Put(type, text) == progress_queue' = Append(progress_queue, [type |-> type, text |-> text])

\* A widget call (label.config, progress_var.set, log_text.insert) made on the
\* thread who.
WritesDisplay(who) == display_writers' = display_writers \cup {who}

\* A loop that never looks at the flag.
KeepGoingAlways(flag) == TRUE

\* Line 1256: "if not self.is_processing: break".
KeepGoing(flag) == flag

\* update_stats_display: what the statistics panel shows of a run.
CompressSummary == [succeeded |-> stats.processed, failed |-> stats.errors]

\* start_compression: inputGiven is "input_dir or single_file is set",
\* outputGiven is "output_dir is set".
start_compression(t, inputGiven, outputGiven) ==
    /\ cpc[t] \in {"idle", "done"}
    /\ Len(progress_queue) < MaxQueue
    /\ IF ~inputGiven \/ ~outputGiven \/ is_processing
       THEN UNCHANGED << is_processing, stats, compressThreadVars, display_writers >>
       ELSE /\ stats' = [processed |-> 0, errors |-> 0]
            /\ WritesDisplay("main")
            /\ is_processing' = TRUE
            /\ cpc' = [cpc EXCEPT ![t] = "started"]
            /\ ci' = [ci EXCEPT ![t] = 0]
            /\ ctotal' = [ctotal EXCEPT ![t] = 0]
    /\ UNCHANGED << progress_queue, last_message, batchVars, saveVars, metaVars >>

\* stop_compression.
stop_compression ==
    /\ is_processing' = FALSE
    /\ WritesDisplay("main")
    /\ UNCHANGED << stats, compressThreadVars, progress_queue, last_message, batchVars, saveVars, metaVars >>

\* process_images_thread, lines 1211-1216, and process_single_file: a single
\* file is selected; on success processed is set to 1 and update_stats_display
\* is called on this thread (line 1346); an error message is queued when the
\* file is missing or the compressor reports an error.
process_single_file(t, ok) ==
    /\ cpc[t] = "started"
    /\ IF ok
       THEN /\ stats' = [stats EXCEPT !.processed = 1]
            /\ WritesDisplay("worker")
            /\ UNCHANGED progress_queue
       ELSE Put("error", "failed") /\ UNCHANGED << stats, display_writers >>
    /\ cpc' = [cpc EXCEPT ![t] = "done"]
    /\ UNCHANGED << is_processing, ci, ctotal, last_message, batchVars, saveVars, metaVars >>

\* process_images_thread, lines 1218-1253: the input directory holds n images.
process_images_begin(t, n) ==
    /\ cpc[t] = "started"
    /\ IF n = 0
       THEN /\ Put("error", "no images")
            /\ cpc' = [cpc EXCEPT ![t] = "done"]
            /\ UNCHANGED << ci, ctotal >>
       ELSE /\ ctotal' = [ctotal EXCEPT ![t] = n]
            /\ ci' = [ci EXCEPT ![t] = 0]
            /\ cpc' = [cpc EXCEPT ![t] = "top"]
            /\ UNCHANGED progress_queue
    /\ UNCHANGED << is_processing, stats, last_message, display_writers, batchVars, saveVars, metaVars >>

\* Lines 1255-1258: the top of a loop iteration; the list is exhausted, or the
\* flag is read and the loop breaks, or the image goes to the compressor.
process_images_poll(t) ==
    /\ cpc[t] = "top"
    /\ IF ci[t] < ctotal[t] /\ KeepGoing(is_processing)
       THEN cpc' = [cpc EXCEPT ![t] = "image"]
       ELSE cpc' = [cpc EXCEPT ![t] = "after"]
    /\ UNCHANGED << is_processing, ci, ctotal, stats, progress_queue, last_message, display_writers,
                    batchVars, saveVars, metaVars >>

\* Lines 1258-1273: optimize_image is back with its status.
process_images_optimized(t, status) ==
    /\ cpc[t] = "image"
    /\ IF status = "success"
       THEN stats' = [stats EXCEPT !.processed = @ + 1]
       ELSE stats' = [stats EXCEPT !.errors = @ + 1]
    /\ ci' = [ci EXCEPT ![t] = @ + 1]
    /\ cpc' = [cpc EXCEPT ![t] = "top"]
    /\ UNCHANGED << is_processing, ctotal, progress_queue, last_message, display_writers,
                    batchVars, saveVars, metaVars >>

\* Lines 1275-1280: after the loop the flag is read again to word the message.
process_images_finish(t) ==
    /\ cpc[t] = "after"
    /\ IF is_processing
       THEN Put("complete", "completed")
       ELSE Put("complete", "stopped")
    /\ cpc' = [cpc EXCEPT ![t] = "done"]
    /\ UNCHANGED << is_processing, ci, ctotal, stats, last_message, display_writers,
                    batchVars, saveVars, metaVars >>

\* check_queue: drains the queue; a complete or error message clears the flag.
check_queue ==
    /\ IF progress_queue = << >>
       THEN UNCHANGED << is_processing, last_message, display_writers >>
       ELSE /\ is_processing' = FALSE
            /\ WritesDisplay("main")
            /\ last_message' = progress_queue[Len(progress_queue)]
    /\ progress_queue' = << >>
    /\ UNCHANGED << stats, compressThreadVars, batchVars, saveVars, metaVars >>

NextCompress ==
    \/ \E t \in Threads, i \in BOOLEAN, o \in BOOLEAN : start_compression(t, i, o)
    \/ stop_compression
    \/ \E t \in Threads, ok \in BOOLEAN : process_single_file(t, ok)
    \/ \E t \in Threads, n \in 0..MaxImages : process_images_begin(t, n)
    \/ \E t \in Threads : process_images_poll(t)
    \/ \E t \in Threads, st \in {"success", "error"} : process_images_optimized(t, st)
    \/ \E t \in Threads : process_images_finish(t)
    \/ check_queue

SpecCompress == Init /\ [][NextCompress]_vars


\* ------------------------------------------------- metadata save paths
\* os.path.basename of a path.
basename(f) == << f.stem, f.suffix >>

\* os.path.join(tempfile.gettempdir(), f"temp_metadata_{basename}") in
\* save_metadata, f"simple_temp_{basename}" in save_simple_metadata.
TempPath(op, f) ==
    [prefix |-> IF op = "main" THEN "temp_metadata_" ELSE "simple_temp_",
     name |-> basename(f)]

\* The except clause of the two save functions: save_metadata removes the temp
\* file if it exists, save_simple_metadata only reports the error.
SaveRaises(op, f) ==
    /\ temps' = IF op = "main" THEN temps \ {TempPath(op, f)} ELSE temps
    /\ ui_pc' = "idle"
    /\ ui_result' = "failed"

\* save_metadata lines 2997-3010, save_simple_metadata lines 2743-2755: the
\* path is taken from the tab, the temp path is built and shutil.copy2 copies
\* the original to it.
save_copy(op, f) ==
    /\ ui_pc = "idle"
    /\ ui_op' = op
    /\ ui_file' = f
    /\ IF fs_ok
       THEN /\ temps' = temps \cup {TempPath(op, f)}
            /\ ui_pc' = "copied"
            /\ ui_result' = "none"
       ELSE SaveRaises(op, f)
    /\ UNCHANGED << content, wfile, batchVars, compressVars, metaVars >>

\* save_metadata lines 3012-3042, save_simple_metadata lines 2757-2777: the
\* fields are collected and written into the temp file by the function of the
\* suffix; any other suffix shows a warning and returns.
save_write ==
    /\ ui_pc = "copied"
    /\ IF Lower(ui_file.suffix) \in {".jpg", ".jpeg", ".webp"}
       THEN IF fs_ok
            THEN ui_pc' = "written" /\ UNCHANGED << temps, ui_result >>
            ELSE SaveRaises(ui_op, ui_file)
       ELSE /\ ui_pc' = "idle"
            /\ ui_result' = "unsupported"
            /\ UNCHANGED temps
    /\ UNCHANGED << content, ui_op, ui_file, wfile, batchVars, compressVars, metaVars >>

\* save_metadata lines 3044-3049, save_simple_metadata lines 2779-2783:
\* shutil.move(temp, original).  It renames when both are on one file system
\* (rename = TRUE) and otherwise copies the temp file over the original, which
\* opens the original for writing.
save_move(rename) ==
    /\ ui_pc = "written"
    /\ IF ~fs_ok
       THEN SaveRaises(ui_op, ui_file) /\ UNCHANGED content
       ELSE IF rename
            THEN /\ content' = [content EXCEPT ![ui_file] = "edited"]
                 /\ temps' = temps \ {TempPath(ui_op, ui_file)}
                 /\ ui_pc' = "idle"
                 /\ ui_result' = "saved"
            ELSE /\ content' = [content EXCEPT ![ui_file] = "partial"]
                 /\ ui_pc' = "moving"
                 /\ UNCHANGED << temps, ui_result >>
    /\ UNCHANGED << ui_op, ui_file, wfile, batchVars, compressVars, metaVars >>

\* The copy of shutil.move ends: the original holds the temp file's bytes and
\* the temp file is unlinked, or the copy raised part-way.
save_move_done ==
    /\ ui_pc = "moving"
    /\ IF fs_ok
       THEN /\ content' = [content EXCEPT ![ui_file] = "edited"]
            /\ temps' = temps \ {TempPath(ui_op, ui_file)}
            /\ ui_pc' = "idle"
            /\ ui_result' = "saved"
       ELSE SaveRaises(ui_op, ui_file) /\ UNCHANGED content
    /\ UNCHANGED << ui_op, ui_file, wfile, batchVars, compressVars, metaVars >>

\* _save_jpeg_metadata_direct lines 5927-5954, on a batch thread: the image is
\* loaded and image.save(image_path, ...) opens the image's own path for
\* writing.  A file that cannot be read raises before anything is written.
direct_save_open(t, f) ==
    /\ wfile[t] = NoFile
    /\ Lower(f.suffix) \in {".jpg", ".jpeg"}
    /\ IF fs_ok
       THEN /\ wfile' = [wfile EXCEPT ![t] = f]
            /\ content' = [content EXCEPT ![f] = "partial"]
       ELSE UNCHANGED << wfile, content >>
    /\ UNCHANGED << temps, ui_pc, ui_op, ui_file, ui_result, batchVars, compressVars, metaVars >>

\* _save_jpeg_metadata_direct lines 5954-5960: the write ends and the file is
\* closed (True), or the write raised and the except answers False.
direct_save_close(t) ==
    /\ wfile[t] # NoFile
    /\ content' = [content EXCEPT ![wfile[t]] = IF fs_ok THEN "edited" ELSE "partial"]
    /\ wfile' = [wfile EXCEPT ![t] = NoFile]
    /\ UNCHANGED << temps, ui_pc, ui_op, ui_file, ui_result, batchVars, compressVars, metaVars >>

\* The writers that have a path open for writing.
OpenForWrite(f) ==
    {t \in Threads : wfile[t] = f} \cup (IF ui_pc = "moving" /\ ui_file = f THEN {"ui"} ELSE {})

NextSave ==
    \/ \E op \in {"main", "simple"}, f \in SaveFiles : save_copy(op, f)
    \/ save_write
    \/ \E r \in BOOLEAN : save_move(r)
    \/ save_move_done
    \/ \E t \in Threads, f \in SaveFiles : direct_save_open(t, f)
    \/ \E t \in Threads : direct_save_close(t)
    \/ fs_change

SpecSave == Init /\ [][NextSave]_vars


\* ------------------------------------------------------------------ metadata encoding
\* Longest field value of the records that are saved and read back.
MaxStrLen == 2

\* A str is the sequence of its code points, a bytes object the sequence of
\* its bytes.  The characters of the checked records: ASCII letters.
AsciiChars == {65, 122}

Strings(n) == UNION {[1..k -> AsciiChars] : k \in 1..n}

\* self.simple_standard_fields, the keys of the simple metadata tab.
simple_standard_fields ==
    {"XPTitle", "ImageDescription", "XPKeywords", "Artist", "Make", "Model"}

\* The records the tab can hold with every field filled in.
FullRecords ==
    {[f \in simple_standard_fields |-> IF f \in S THEN a ELSE b] :
        S \in SUBSET simple_standard_fields,
        a \in Strings(MaxStrLen), b \in Strings(MaxStrLen)}

\* b'\xff\xfe'
BOM == << 255, 254 >>

\* bytes.startswith
StartsWith(b, p) == Len(b) >= Len(p) /\ SubSeq(b, 1, Len(p)) = p

\* str.encode('utf-16le'), code points of the basic plane.
RECURSIVE encode_utf16le(_)
encode_utf16le(s) ==
    IF s = << >> THEN << >>
    ELSE << Head(s) % 256, Head(s) \div 256 >> \o encode_utf16le(Tail(s))

\* str.encode('utf-8'), code points below 2048.
RECURSIVE encode_utf8(_)
encode_utf8(s) ==
    IF s = << >> THEN << >>
    ELSE (IF Head(s) < 128 THEN << Head(s) >>
          ELSE << 192 + (Head(s) \div 64), 128 + (Head(s) % 64) >>)
         \o encode_utf8(Tail(s))

\* bytes.decode('utf-16le', errors='ignore'): a trailing odd byte is dropped.
RECURSIVE decode_utf16le(_)
decode_utf16le(b) ==
    IF Len(b) < 2 THEN << >>
    ELSE << b[1] + 256 * b[2] >> \o decode_utf16le(SubSeq(b, 3, Len(b)))

\* bytes.decode('utf-8', errors='ignore'): one- and two-byte sequences, any
\* other byte is dropped.
RECURSIVE decode_utf8(_)
decode_utf8(b) ==
    IF b = << >> THEN << >>
    ELSE IF b[1] < 128 THEN << b[1] >> \o decode_utf8(Tail(b))
    ELSE IF /\ b[1] >= 194 /\ b[1] < 224 /\ Len(b) >= 2
            /\ b[2] >= 128 /\ b[2] < 192
         THEN << (b[1] - 192) * 64 + (b[2] - 128) >>
                 \o decode_utf8(SubSeq(b, 3, Len(b)))
    ELSE decode_utf8(Tail(b))

\* A value as Python types it.
Bytes(d) == [kind |-> "bytes", data |-> d]
Str(d) == [kind |-> "str", data |-> d]

\* field_mapping of the JPEG save paths: the EXIF tag of a field.
TagId(f) ==
    CASE f = "XPTitle"          -> 40091
      [] f = "ImageDescription" -> 270
      [] f = "XPKeywords"       -> 40094
      [] f = "Artist"           -> 315
      [] f = "Make"             -> 271
      [] f = "Model"            -> 272

\* field_mapping: the encoding of a field.
Utf16Fields == {"XPTitle", "XPKeywords"}

\* PIL.ExifTags.TAGS restricted to the six tags.
TagName(tag) == CHOOSE f \in simple_standard_fields : TagId(f) = tag

\* The field of a dict that is written under a tag.
FieldOfTag(d, tag) == CHOOSE f \in DOMAIN d : TagId(f) = tag

\* "Add BOM if not present".
AddBom(b) == IF StartsWith(b, BOM) THEN b ELSE BOM \o b

\* load_simple_metadata without "Remove BOM if present".
KeepBom(b) == b

\* "Remove BOM if present".
RemoveBom(b) == IF StartsWith(b, BOM) THEN SubSeq(b, 3, Len(b)) ELSE b

\* save_simple_jpeg_metadata: exif_dict['0th'] as the file receives it.
save_simple_jpeg_metadata(metadata_dict) ==
    LET known == DOMAIN metadata_dict \cap simple_standard_fields
    IN  [tag \in {TagId(f) : f \in known} |->
            LET f == FieldOfTag([g \in known |-> metadata_dict[g]], tag)
            IN  IF f \in Utf16Fields
                THEN AddBom(encode_utf16le(metadata_dict[f]))
                ELSE encode_utf8(metadata_dict[f])]

\* piexif.dump, image.save and image.getexif: the XP tags are of type BYTE
\* and are read back as bytes, the other four are of type ASCII and are read
\* back as str.
getexif(exif0th) ==
    [tag \in DOMAIN exif0th |->
        IF tag \in {TagId(f) : f \in Utf16Fields}
        THEN Bytes(exif0th[tag])
        ELSE Str(exif0th[tag])]

\* load_simple_metadata: the decoding of one tag.
DecodeTag(tag, data) ==
    IF data.kind = "bytes"
    THEN IF tag \in {40091, 40094}
         THEN decode_utf16le(RemoveBom(data.data))
         ELSE decode_utf8(data.data)
    ELSE data.data

\* load_simple_metadata: all_fields, the six standard fields as displayed.
load_simple_metadata(exifdata) ==
    [f \in simple_standard_fields |->
        IF TagId(f) \in DOMAIN exifdata
        THEN DecodeTag(TagId(f), exifdata[TagId(f)])
        ELSE << >>]

\* ------------------------------------------------------------------ text
\* Longest text, in pieces, of the responses and rules texts that are enumerated.
MaxTextLen == 3

\* The code points of the literal texts the functions and their inputs use.
Chars(w) ==
    CASE w = "" -> << >>
      [] w = "Title" -> << 84, 105, 116, 108, 101 >>
      [] w = "Make" -> << 77, 97, 107, 101 >>
      [] w = "Model" -> << 77, 111, 100, 101, 108 >>
      [] w = "Artist" -> << 65, 114, 116, 105, 115, 116 >>
      [] w = "Description" -> << 68, 101, 115, 99, 114, 105, 112, 116, 105, 111, 110 >>
      [] w = "Keywords" -> << 75, 101, 121, 119, 111, 114, 100, 115 >>
      [] w = ":" -> << 58 >>
      [] w = " " -> << 32 >>
      [] w = "\n" -> << 10 >>
      [] w = "\"" -> << 34 >>
      [] w = "Modern Oak Kitchen" -> << 77, 111, 100, 101, 114, 110, 32, 79, 97, 107, 32, 75, 105, 116, 99, 104, 101, 110 >>
      [] w = "F032" -> << 70, 48, 51, 50 >>
      [] w = "ST78" -> << 83, 84, 55, 56 >>
      [] w = "EGGER" -> << 69, 71, 71, 69, 82 >>
      [] w = "<title>" -> << 60, 116, 105, 116, 108, 101, 62 >>
      [] w = "</title>" -> << 60, 47, 116, 105, 116, 108, 101, 62 >>
      [] w = "**" -> << 42, 42 >>
      [] w = "###" -> << 35, 35, 35 >>
      [] w = "[Your Company Name]" -> << 91, 89, 111, 117, 114, 32, 67, 111, 109, 112, 97, 110, 121, 32, 78, 97, 109, 101, 93 >>
      [] w = ", " -> << 44, 32 >>
      [] w = "kitchen" -> << 107, 105, 116, 99, 104, 101, 110 >>
      [] w = "worktop" -> << 119, 111, 114, 107, 116, 111, 112 >>
      [] w = "countertop" -> << 99, 111, 117, 110, 116, 101, 114, 116, 111, 112 >>
      [] w = "cabinet" -> << 99, 97, 98, 105, 110, 101, 116 >>
      [] w = "modern" -> << 109, 111, 100, 101, 114, 110 >>
      [] w = "design" -> << 100, 101, 115, 105, 103, 110 >>
      [] w = "concrete" -> << 99, 111, 110, 99, 114, 101, 116, 101 >>
      [] w = "wood" -> << 119, 111, 111, 100 >>
      [] w = "granite" -> << 103, 114, 97, 110, 105, 116, 101 >>
      [] w = "braganza" -> << 98, 114, 97, 103, 97, 110, 122, 97 >>
      [] w = "title" -> << 116, 105, 116, 108, 101 >>
      [] w = "name" -> << 110, 97, 109, 101 >>
      [] w = "artist" -> << 97, 114, 116, 105, 115, 116 >>
      [] w = "company" -> << 99, 111, 109, 112, 97, 110, 121 >>
      [] w = "brand" -> << 98, 114, 97, 110, 100 >>
      [] w = "make" -> << 109, 97, 107, 101 >>
      [] w = "product code" -> << 112, 114, 111, 100, 117, 99, 116, 32, 99, 111, 100, 101 >>
      [] w = "code" -> << 99, 111, 100, 101 >>
      [] w = "model" -> << 109, 111, 100, 101, 108 >>
      [] w = "type" -> << 116, 121, 112, 101 >>
      [] w = "product type" -> << 112, 114, 111, 100, 117, 99, 116, 32, 116, 121, 112, 101 >>
      [] w = "egger" -> << 101, 103, 103, 101, 114 >>
      [] w = "Oak" -> << 79, 97, 107 >>
      [] w = "{" -> << 123 >>
      [] w = "}" -> << 125 >>
      [] w = "_" -> << 95 >>
      [] w = "." -> << 46 >>
      [] w = "jpg" -> << 106, 112, 103 >>
      [] w = "Grey" -> << 71, 114, 101, 121 >>
      [] w = "Cascia" -> << 67, 97, 115, 99, 105, 97 >>
      [] w = "Granite" -> << 71, 114, 97, 110, 105, 116, 101 >>
      [] w = "room" -> << 114, 111, 111, 109 >>
      [] w = "images" -> << 105, 109, 97, 103, 101, 115 >>
      [] w = "000" -> << 48, 48, 48 >>
      [] w = "a" -> << 97 >>
      [] w = "tar" -> << 116, 97, 114 >>
      [] w = "gz" -> << 103, 122 >>
      [] w = "Name" -> << 78, 97, 109, 101 >>
      [] w = ".jpg" -> << 46, 106, 112, 103 >>
      [] w = ".tar.gz" -> << 46, 116, 97, 114, 46, 103, 122 >>
      [] w = "[parent_folder]" -> << 91, 112, 97, 114, 101, 110, 116, 95, 102, 111, 108, 100, 101, 114, 93 >>
      [] w = "[grandparent_folder]" -> << 91, 103, 114, 97, 110, 100, 112, 97, 114, 101, 110, 116, 95, 102, 111, 108, 100, 101, 114, 93 >>
      [] w = "[filename]" -> << 91, 102, 105, 108, 101, 110, 97, 109, 101, 93 >>
      [] w = "Instructions for AI" -> << 73, 110, 115, 116, 114, 117, 99, 116, 105, 111, 110, 115, 32, 102, 111, 114, 32, 65, 73 >>
      [] w = "-" -> << 45 >>
      [] w = "kitchens" -> << 107, 105, 116, 99, 104, 101, 110, 115 >>
      [] w = "showroom" -> << 115, 104, 111, 119, 114, 111, 111, 109 >>
      [] w = "F032_a" -> << 70, 48, 51, 50, 95, 97 >>
      [] w = "F032_b" -> << 70, 48, 51, 50, 95, 98 >>
      [] w = "F032_d" -> << 70, 48, 51, 50, 95, 100 >>
      [] w = ".webp" -> << 46, 119, 101, 98, 112 >>
      [] w = ".png" -> << 46, 112, 110, 103 >>
      [] w = "H110_ST9_Grey_Oak_room_000" -> << 72, 49, 49, 48, 95, 83, 84, 57, 95, 71, 114, 101, 121, 95, 79, 97, 107, 95, 114, 111, 111, 109, 95, 48, 48, 48 >>
      [] w = "description" -> << 100, 101, 115, 99, 114, 105, 112, 116, 105, 111, 110 >>
      [] w = "keywords" -> << 107, 101, 121, 119, 111, 114, 100, 115 >>
      [] w = "Note" -> << 78, 111, 116, 101 >>
      [] w = "Kitchens" -> << 75, 105, 116, 99, 104, 101, 110, 115 >>
      [] w = "[ai_description]" -> << 91, 97, 105, 95, 100, 101, 115, 99, 114, 105, 112, 116, 105, 111, 110, 93 >>
      [] w = " - " -> << 32, 45, 32 >>
      [] w = "Title: [parent_folder] - [ai_description]" -> << 84, 105, 116, 108, 101, 58, 32, 91, 112, 97, 114, 101, 110, 116, 95, 102, 111, 108, 100, 101, 114, 93, 32, 45, 32, 91, 97, 105, 95, 100, 101, 115, 99, 114, 105, 112, 116, 105, 111, 110, 93 >>
      [] w = "Make: [grandparent_folder]" -> << 77, 97, 107, 101, 58, 32, 91, 103, 114, 97, 110, 100, 112, 97, 114, 101, 110, 116, 95, 102, 111, 108, 100, 101, 114, 93 >>
      [] w = "Model: [parent_folder]" -> << 77, 111, 100, 101, 108, 58, 32, 91, 112, 97, 114, 101, 110, 116, 95, 102, 111, 108, 100, 101, 114, 93 >>
      [] w = "Description: [ai_vision_analysis]" -> << 68, 101, 115, 99, 114, 105, 112, 116, 105, 111, 110, 58, 32, 91, 97, 105, 95, 118, 105, 115, 105, 111, 110, 95, 97, 110, 97, 108, 121, 115, 105, 115, 93 >>
      [] w = "Keywords: [folder_keywords], [ai_keywords]" -> << 75, 101, 121, 119, 111, 114, 100, 115, 58, 32, 91, 102, 111, 108, 100, 101, 114, 95, 107, 101, 121, 119, 111, 114, 100, 115, 93, 44, 32, 91, 97, 105, 95, 107, 101, 121, 119, 111, 114, 100, 115, 93 >>
      [] w = "Artist: [Your Company Name]" -> << 65, 114, 116, 105, 115, 116, 58, 32, 91, 89, 111, 117, 114, 32, 67, 111, 109, 112, 97, 110, 121, 32, 78, 97, 109, 101, 93 >>
      [] w = "Instructions for AI:" -> << 73, 110, 115, 116, 114, 117, 99, 116, 105, 111, 110, 115, 32, 102, 111, 114, 32, 65, 73, 58 >>
      [] w = "- Analyze folder structure first using tool use" -> << 45, 32, 65, 110, 97, 108, 121, 122, 101, 32, 102, 111, 108, 100, 101, 114, 32, 115, 116, 114, 117, 99, 116, 117, 114, 101, 32, 102, 105, 114, 115, 116, 32, 117, 115, 105, 110, 103, 32, 116, 111, 111, 108, 32, 117, 115, 101 >>
      [] w = "- For each image, combine folder context with visual analysis" -> << 45, 32, 70, 111, 114, 32, 101, 97, 99, 104, 32, 105, 109, 97, 103, 101, 44, 32, 99, 111, 109, 98, 105, 110, 101, 32, 102, 111, 108, 100, 101, 114, 32, 99, 111, 110, 116, 101, 120, 116, 32, 119, 105, 116, 104, 32, 118, 105, 115, 117, 97, 108, 32, 97, 110, 97, 108, 121, 115, 105, 115 >>
      [] w = "- Extract product codes from filenames (e.g., F032_ST78)" -> << 45, 32, 69, 120, 116, 114, 97, 99, 116, 32, 112, 114, 111, 100, 117, 99, 116, 32, 99, 111, 100, 101, 115, 32, 102, 114, 111, 109, 32, 102, 105, 108, 101, 110, 97, 109, 101, 115, 32, 40, 101, 46, 103, 46, 44, 32, 70, 48, 51, 50, 95, 83, 84, 55, 56, 41 >>
      [] w = "- Be specific and descriptive in image descriptions" -> << 45, 32, 66, 101, 32, 115, 112, 101, 99, 105, 102, 105, 99, 32, 97, 110, 100, 32, 100, 101, 115, 99, 114, 105, 112, 116, 105, 118, 101, 32, 105, 110, 32, 105, 109, 97, 103, 101, 32, 100, 101, 115, 99, 114, 105, 112, 116, 105, 111, 110, 115 >>
      [] w = "Instructions for AI: be brief" -> << 73, 110, 115, 116, 114, 117, 99, 116, 105, 111, 110, 115, 32, 102, 111, 114, 32, 65, 73, 58, 32, 98, 101, 32, 98, 114, 105, 101, 102 >>
      [] w = "- Make: none" -> << 45, 32, 77, 97, 107, 101, 58, 32, 110, 111, 110, 101 >>
      [] w = "Note: a: b" -> << 78, 111, 116, 101, 58, 32, 97, 58, 32, 98 >>
      [] w = "  -x  " -> << 32, 32, 45, 120, 32, 32 >>
      [] w = "plain" -> << 112, 108, 97, 105, 110 >>
      [] w = "Make : [filename]" -> << 77, 97, 107, 101, 32, 58, 32, 91, 102, 105, 108, 101, 110, 97, 109, 101, 93 >>
      [] w = "make: x" -> << 109, 97, 107, 101, 58, 32, 120 >>
      [] w = "Make: [[grandparent_folder]filename]" -> << 77, 97, 107, 101, 58, 32, 91, 91, 103, 114, 97, 110, 100, 112, 97, 114, 101, 110, 116, 95, 102, 111, 108, 100, 101, 114, 93, 102, 105, 108, 101, 110, 97, 109, 101, 93 >>
      [] w = "Model: [parent_folder]/[filename]/[grandparent_folder]" -> << 77, 111, 100, 101, 108, 58, 32, 91, 112, 97, 114, 101, 110, 116, 95, 102, 111, 108, 100, 101, 114, 93, 47, 91, 102, 105, 108, 101, 110, 97, 109, 101, 93, 47, 91, 103, 114, 97, 110, 100, 112, 97, 114, 101, 110, 116, 95, 102, 111, 108, 100, 101, 114, 93 >>

\* The text that a sequence of pieces spells.
RECURSIVE Text(_)
Text(pieces) ==
    IF pieces = << >> THEN << >> ELSE Chars(Head(pieces)) \o Text(Tail(pieces))

SetMin(S) == CHOOSE x \in S : \A y \in S : x <= y
SetMax(S) == CHOOSE x \in S : \A y \in S : x >= y

\* str.isspace for one character; what \s matches.
IsSpace(c) == c \in {9, 10, 11, 12, 13, 32}

\* Newline, colon, equals sign, less-than and the two quote characters.
NL == 10
Colon == 58
Equals == 61
LessThan == 60
IsQuote(c) == c \in {34, 39}

\* str.lower() on ASCII text.
lower(s) == [i \in 1..Len(s) |-> IF s[i] >= 65 /\ s[i] <= 90 THEN s[i] + 32 ELSE s[i]]

\* s[i:].startswith(w), positions counted from 1.
At(s, i, w) == i + Len(w) - 1 <= Len(s) /\ SubSeq(s, i, i + Len(w) - 1) = w

\* w in s
In(w, s) == \E i \in 1..Len(s) : At(s, i, w)

\* str.strip()
strip(s) ==
    LET keep == {i \in 1..Len(s) : ~IsSpace(s[i])}
    IN  IF keep = {} THEN << >> ELSE SubSeq(s, SetMin(keep), SetMax(keep))

\* str.split(sep) for a one-character separator.
RECURSIVE split(_, _)
split(s, sep) ==
    LET at == {i \in 1..Len(s) : s[i] = sep}
    IN  IF at = {} THEN << s >>
        ELSE << SubSeq(s, 1, SetMin(at) - 1) >>
                \o split(SubSeq(s, SetMin(at) + 1, Len(s)), sep)

\* The first position from i on that satisfies P, Len(s) + 1 when none does.
SkipSpaces(s, i) ==
    SetMin({j \in i..(Len(s) + 1) : j = Len(s) + 1 \/ ~IsSpace(s[j])})
LineEnd(s, i) ==
    SetMin({j \in i..(Len(s) + 1) : j = Len(s) + 1 \/ s[j] = NL}) - 1
NextQuote(s, i) ==
    SetMin({j \in i..(Len(s) + 1) : j = Len(s) + 1 \/ IsQuote(s[j])})
NextLessThan(s, i) ==
    SetMin({j \in i..(Len(s) + 1) : j = Len(s) + 1 \/ s[j] = LessThan})

\* ------------------------------------------------------------------ response parsing
NoMatch == [found |-> FALSE]
Match(v) == [found |-> TRUE, group |-> v]

\* r'<label>\s*:\s*(.+?)(?:\n|$)' tried at position i: the label, white space,
\* a colon, white space (greedy, newlines included; it gives characters back
\* when nothing but white space is left), then the rest of the line.
StructuredAt(s, i, label) ==
    LET c == SkipSpaces(s, i + Len(label))
        e == SkipSpaces(s, c + 1)
        back == {k \in (c + 1)..Len(s) : s[k] # NL}
    IN  IF ~At(lower(s), i, label) \/ c > Len(s) THEN NoMatch
        ELSE IF s[c] # Colon THEN NoMatch
        ELSE IF e <= Len(s) THEN Match(SubSeq(s, e, LineEnd(s, e)))
        ELSE IF back # {} THEN Match(SubSeq(s, SetMax(back), LineEnd(s, SetMax(back))))
        ELSE NoMatch

\* r'<label>["\']?\s*[:=]\s*["\']([^"\']+)["\']' tried at position i.
QuotedAt(s, i, label) ==
    LET j == i + Len(label)
        k == IF j <= Len(s) /\ IsQuote(s[j]) THEN j + 1 ELSE j
        c == SkipSpaces(s, k)
        q == SkipSpaces(s, c + 1)
        close == NextQuote(s, q + 1)
    IN  IF ~At(lower(s), i, label) \/ c > Len(s) THEN NoMatch
        ELSE IF s[c] \notin {Colon, Equals} \/ q > Len(s) THEN NoMatch
        ELSE IF ~IsQuote(s[q]) \/ close > Len(s) \/ close = q + 1 THEN NoMatch
        ELSE Match(SubSeq(s, q + 1, close - 1))

\* r'<title>([^<]+)</title>' tried at position i.
TitleTagAt(s, i) ==
    LET from == i + Len(Chars("<title>"))
        lt == NextLessThan(s, from)
    IN  IF ~At(lower(s), i, Chars("<title>")) \/ lt = from THEN NoMatch
        ELSE IF ~At(lower(s), lt, Chars("</title>")) THEN NoMatch
        ELSE Match(SubSeq(s, from, lt - 1))

Structured(label) == [kind |-> "structured", label |-> Chars(label)]
Quoted(label) == [kind |-> "quoted", label |-> Chars(label)]
TitleTag == [kind |-> "tag", label |-> Chars("<title>")]

PatternAt(s, i, pattern) ==
    CASE pattern.kind = "structured" -> StructuredAt(s, i, pattern.label)
      [] pattern.kind = "quoted"     -> QuotedAt(s, i, pattern.label)
      [] pattern.kind = "tag"        -> TitleTagAt(s, i)

\* re.search(pattern, s, re.IGNORECASE ...): the leftmost match.
re_search(pattern, s) ==
    LET hits == {i \in 1..Len(s) : PatternAt(s, i, pattern).found}
    IN  IF hits = {} THEN NoMatch ELSE PatternAt(s, SetMin(hits), pattern)

\* for pattern in patterns: match = re.search(...); if match: ...; break
RECURSIVE first_match(_, _)
first_match(patterns, s) ==
    IF patterns = << >> THEN NoMatch
    ELSE IF re_search(Head(patterns), s).found THEN re_search(Head(patterns), s)
    ELSE first_match(Tail(patterns), s)

\* A dict: a function from its keys.  d[k] = v
EmptyDict == << >>
SetKey(d, k, v) == [x \in DOMAIN d \cup {k} |-> IF x = k THEN v ELSE d[x]]

\* metadata[key] = match.group(1).strip() when there is a match.
SetIfFound(d, k, match) == IF match.found THEN SetKey(d, k, strip(match.group)) ELSE d

\* bool(d.get(k))
Get(d, k) == k \in DOMAIN d /\ d[k] # << >>

keyword_indicators ==
    << "kitchen", "worktop", "countertop", "cabinet", "modern", "design",
       "concrete", "wood", "granite", "braganza" >>

\* ', '.join(keywords)
RECURSIVE join(_)
join(words) ==
    IF words = << >> THEN << >>
    ELSE IF Len(words) = 1 THEN Chars(words[1])
    ELSE Chars(words[1]) \o Chars(", ") \o join(Tail(words))

\* Three backquotes, the fence of a code block.
Fence == << 96, 96, 96 >>

\* The stripped lines longer than 20 characters that are no heading or fence.
DescriptionLine(line) ==
    /\ line # << >>
    /\ ~At(line, 1, Chars("**"))
    /\ ~At(line, 1, Chars("###"))
    /\ ~At(line, 1, Fence)
    /\ Len(line) > 20

\* max(description_parts, key=len): the first of the longest.
Longest(parts) ==
    parts[SetMin({i \in 1..Len(parts) :
                     \A j \in 1..Len(parts) : Len(parts[j]) <= Len(parts[i])})]

\* self.current_filename_data: unset unless the chat tab analysed an image.
NoFilenameData == [present |-> FALSE]

\* _parse_ai_response_for_metadata, field by field in the order of the code.
ParseDescription(s) ==
    LET lines == split(s, NL)
        stripped == [i \in 1..Len(lines) |-> strip(lines[i])]
        description_parts == SelectSeq(stripped, DescriptionLine)
    IN  IF description_parts # << >>
        THEN SetKey(EmptyDict, "Description", Longest(description_parts))
        ELSE EmptyDict

ParseKeywords(d, s) ==
    LET Found(w) == In(Chars(w), lower(s))
        keywords == SelectSeq(keyword_indicators, Found)
    IN  IF keywords # << >> THEN SetKey(d, "Keywords", join(keywords)) ELSE d

ParseTitle(d, s) ==
    IF re_search(Structured("title"), s).found
    THEN SetIfFound(d, "Title", re_search(Structured("title"), s))
    ELSE IF In(Chars("title"), lower(s)) \/ In(Chars("name"), lower(s))
    THEN SetIfFound(d, "Title",
                    first_match(<< Quoted("title"), TitleTag, Quoted("name") >>, s))
    ELSE d

ParseField(d, s, key, label, fallbacks) ==
    IF re_search(Structured(label), s).found
    THEN SetIfFound(d, key, re_search(Structured(label), s))
    ELSE SetIfFound(d, key, first_match(fallbacks, s))

ParseContext(d, s, fdata) ==
    LET d1 == IF ~Get(d, "Artist") /\ In(Chars("egger"), lower(s))
              THEN SetKey(d, "Artist", Chars("[Your Company Name]"))
              ELSE d
        d2 == IF fdata.present /\ fdata.code # << >>
              THEN SetKey(d1, "Make", fdata.code) ELSE d1
        d3 == IF fdata.present /\ fdata.type # << >>
              THEN SetKey(d2, "Model", fdata.type) ELSE d2
    IN  IF ~Get(d1, "Make") /\ ~Get(d1, "Model") THEN d3 ELSE d1

parse_ai_response_for_metadata(ai_response, fdata) ==
    LET d1 == ParseDescription(ai_response)
        d2 == ParseKeywords(d1, ai_response)
        d3 == ParseTitle(d2, ai_response)
        d4 == ParseField(d3, ai_response, "Artist", "artist",
                         << Quoted("artist"), Quoted("company"), Quoted("brand") >>)
        d5 == ParseField(d4, ai_response, "Make", "make",
                         << Quoted("make"), Quoted("product code"), Quoted("code") >>)
        d6 == ParseField(d5, ai_response, "Model", "model",
                         << Quoted("model"), Quoted("type"), Quoted("product type") >>)
    IN  ParseContext(d6, ai_response, fdata)

\* The six canonical fields as the parser names them, and the key under
\* which the JPEG save paths look each of them up.
CanonicalFields == {"Title", "Description", "Keywords", "Artist", "Make", "Model"}
SaveKey(f) ==
    CASE f = "Title"       -> "XPTitle"
      [] f = "Description" -> "ImageDescription"
      [] f = "Keywords"    -> "XPKeywords"
      [] OTHER             -> f

\* ------------------------------------------------------------------ batch persist
\* _save_jpeg_metadata_direct: the tags it sets in exif_dict['0th'], which
\* image.save writes into the file.
jpeg_direct_exif(metadata_dict) ==
    LET known == DOMAIN metadata_dict \cap simple_standard_fields
    IN  [tag \in {TagId(f) : f \in known} |->
            LET f == FieldOfTag([g \in known |-> metadata_dict[g]], tag)
            IN  IF f \in Utf16Fields
                THEN encode_utf16le(metadata_dict[f])
                ELSE encode_utf8(metadata_dict[f])]

\* "if metadata_dict:" with every dict taken as true.
AlwaysTruthy(d) == TRUE

\* "if metadata_dict:" / "if metadata:"
Truthy(d) == d # EmptyDict

\* _process_single_image_ai from "if response:" on, metadata_dict being the
\* dict the parser returned ({} stands for the path that never parsed): whether
\* _save_metadata_to_file was called, the value returned, and the EXIF tags
\* the file received.
single_image_persist(image_path, response, metadata_dict, io) ==
    LET persist == response # << >> /\ Truthy(metadata_dict)
        success == persist /\ save_metadata_to_file(image_path, io)
    IN  [ metadata |-> metadata_dict,
          persist  |-> persist,
          success  |-> success,
          exif     |-> IF success /\ Lower(image_path.suffix) \in {".jpg", ".jpeg"}
                       THEN jpeg_direct_exif(metadata_dict)
                       ELSE EmptyDict ]

\* _process_single_image_ai from the response of the model call on; the
\* response is parsed once and the dict is bound to metadata_dict.
process_single_image_ai(image_path, response, fdata, io) ==
    CHOOSE result \in
        {single_image_persist(image_path, response, metadata_dict, io) :
            metadata_dict \in {IF response # << >>
                               THEN parse_ai_response_for_metadata(response, fdata)
                               ELSE EmptyDict}} : TRUE

\* _automated_batch_thread, one image, from "if metadata:" on.
batch_image_persist(image_path, metadata, io) ==
    LET persist == Truthy(metadata)
    IN  [ metadata |-> metadata,
          persist  |-> persist,
          success  |-> persist /\ save_metadata_for_batch(image_path, io),
          exif     |-> EmptyDict ]

\* _automated_batch_thread, one image from the response of the model call on:
\* _process_image_with_batch_context answers the parsed dict, or None without
\* a response; "if metadata:" guards _save_metadata_for_batch.
automated_batch_image(image_path, response, fdata, io) ==
    CHOOSE result \in
        {batch_image_persist(image_path, metadata, io) :
            metadata \in {IF response # << >>
                          THEN parse_ai_response_for_metadata(response, fdata)
                          ELSE EmptyDict}} : TRUE

\* ------------------------------------------------------------------ JPEG write paths
\* save_main_jpeg_metadata: exif_dict['0th'] as the file receives it (the
\* same field_mapping and BOM handling as save_simple_jpeg_metadata).
save_main_jpeg_metadata(metadata_dict) ==
    LET known == DOMAIN metadata_dict \cap simple_standard_fields
    IN  [tag \in {TagId(f) : f \in known} |->
            LET f == FieldOfTag([g \in known |-> metadata_dict[g]], tag)
            IN  IF f \in Utf16Fields
                THEN AddBom(encode_utf16le(metadata_dict[f]))
                ELSE encode_utf8(metadata_dict[f])]

\* PIL writing a str into an ASCII tag: value.encode('ascii', 'replace').
encode_ascii(s) == [i \in 1..Len(s) |-> IF s[i] < 128 THEN s[i] ELSE 63]

\* _save_jpeg_metadata with config=None.  XPTitle and ImageDescription are
\* set first when not blank.  The loop over the other fields unpacks the
\* three-element tuple of tag_mapping into two names: the first such field
\* raises ValueError, and the except branch starts again from image.getexif()
\* and sets only the tags of the keys it knows, of which the record can hold
\* Make and Model.
save_jpeg_metadata(metadata_dict) ==
    LET first == {f \in DOMAIN metadata_dict \cap {"XPTitle", "ImageDescription"} :
                     strip(metadata_dict[f]) # << >>}
        others == (DOMAIN metadata_dict \cap simple_standard_fields)
                      \ {"XPTitle", "ImageDescription"}
        fallback == DOMAIN metadata_dict \cap {"Make", "Model"}
    IN  IF others = {}
        THEN [tag \in {TagId(f) : f \in first} |->
                 LET f == FieldOfTag([g \in first |-> metadata_dict[g]], tag)
                 IN  IF f \in Utf16Fields
                     THEN encode_utf16le(strip(metadata_dict[f]))
                     ELSE encode_utf8(strip(metadata_dict[f]))]
        ELSE [tag \in {TagId(f) : f \in fallback} |->
                 encode_ascii(metadata_dict[FieldOfTag([g \in fallback |-> metadata_dict[g]], tag)])]

\* The functions that write metadata into a JPEG file.
JpegWritePaths == {"save_main_jpeg_metadata", "save_simple_jpeg_metadata",
                   "_save_jpeg_metadata", "_save_jpeg_metadata_direct"}

jpeg_write(path, metadata_dict) ==
    CASE path = "save_main_jpeg_metadata"    -> save_main_jpeg_metadata(metadata_dict)
      [] path = "save_simple_jpeg_metadata"  -> save_simple_jpeg_metadata(metadata_dict)
      [] path = "_save_jpeg_metadata"        -> save_jpeg_metadata(metadata_dict)
      [] path = "_save_jpeg_metadata_direct" -> jpeg_direct_exif(metadata_dict)

\* A dict with only some of its keys.
Restrict(d, keys) == [k \in DOMAIN d \cap keys |-> d[k]]

\* The records handed to the write paths: all six fields, or title and
\* description alone.
WriteRecords ==
    FullRecords \cup {Restrict(r, {"XPTitle", "ImageDescription"}) : r \in FullRecords}

\* ------------------------------------------------------------------ batch rules
\* str.replace(old, new)
RECURSIVE replace(_, _, _)
replace(s, old, new) ==
    IF s = << >> THEN << >>
    ELSE IF At(s, 1, old) THEN new \o replace(SubSeq(s, Len(old) + 1, Len(s)), old, new)
    ELSE << Head(s) >> \o replace(Tail(s), old, new)

\* An insertion-ordered dict: the sequence of its (key, value) pairs.
Keys(pairs) == {pairs[i][1] : i \in 1..Len(pairs)}
SetPair(pairs, k, v) ==
    IF k \in Keys(pairs)
    THEN [i \in 1..Len(pairs) |-> IF pairs[i][1] = k THEN << k, v >> ELSE pairs[i]]
    ELSE Append(pairs, << k, v >>)

\* The name of the metadata field that a text spells, "" when it spells none.
FieldNamed(text) ==
    IF \E f \in CanonicalFields : Chars(f) = text
    THEN CHOOSE f \in CanonicalFields : Chars(f) = text
    ELSE ""

\* _parse_batch_rules, one line of the rules text: rules[field] = value for
\* a line "<field>: <value>" of one of the six fields.
ParseRuleLine(rules, raw) ==
    LET line == strip(raw)
        colon == SetMin({i \in 1..Len(line) : line[i] = Colon})
        field == strip(SubSeq(line, 1, colon - 1))
        value == strip(SubSeq(line, colon + 1, Len(line)))
    IN  IF line = << >> \/ ~In(<< Colon >>, line) THEN rules
        ELSE IF FieldNamed(field) # "" THEN SetPair(rules, FieldNamed(field), value)
        ELSE rules

RECURSIVE ParseRuleLines(_, _)
ParseRuleLines(rules, lines) ==
    IF lines = << >> THEN rules
    ELSE ParseRuleLines(ParseRuleLine(rules, Head(lines)), Tail(lines))

\* _parse_batch_rules: the field rules, in the order of their first line.
parse_batch_rules(text) == ParseRuleLines(<< >>, split(text, NL))

\* instructions.append(line) with the text after the colon appended instead.
InstructionValue(line, value) == value

\* instructions.append(line): the stripped line goes into the list.
InstructionEntry(line, value) == line

\* "elif field == 'Instructions for AI'" with the test left out.
NeverHeading(field) == FALSE

\* elif field == 'Instructions for AI': continue
IsHeading(field) == field = Chars("Instructions for AI")

\* _parse_batch_rules, one line of the rules text: the instructions list
\* after it.
ParseInstructionLine(instructions, raw) ==
    LET line == strip(raw)
        colon == SetMin({i \in 1..Len(line) : line[i] = Colon})
        field == strip(SubSeq(line, 1, colon - 1))
        value == strip(SubSeq(line, colon + 1, Len(line)))
    IN  IF line = << >> THEN instructions
        ELSE IF In(<< Colon >>, line)
        THEN IF FieldNamed(field) # "" \/ IsHeading(field) THEN instructions
             ELSE Append(instructions, InstructionEntry(line, value))
        ELSE IF At(line, 1, Chars("-")) THEN Append(instructions, line)
        ELSE instructions

RECURSIVE ParseInstructionLines(_, _)
ParseInstructionLines(instructions, lines) ==
    IF lines = << >> THEN instructions
    ELSE ParseInstructionLines(ParseInstructionLine(instructions, Head(lines)), Tail(lines))

\* '\n'.join(lines)
RECURSIVE join_lines(_)
join_lines(lines) ==
    IF lines = << >> THEN << >>
    ELSE IF Len(lines) = 1 THEN lines[1]
    ELSE lines[1] \o << NL >> \o join_lines(Tail(lines))

\* _parse_batch_rules: rules['instructions'].
batch_instructions(text) == join_lines(ParseInstructionLines(<< >>, split(text, NL)))

\* _format_rules_for_prompt: each rule with the placeholders replaced.
format_rules_for_prompt(rules, parent_folder, grandparent_folder, filename) ==
    [i \in 1..Len(rules) |->
        << rules[i][1],
           replace(replace(replace(rules[i][2],
                                   Chars("[parent_folder]"), parent_folder),
                           Chars("[grandparent_folder]"), grandparent_folder),
                   Chars("[filename]"), filename) >>]

\* '\n'.join(formatted_rules) of the lines f"{field}: {rule}".
RECURSIVE RulesPrompt(_)
RulesPrompt(formatted) ==
    IF formatted = << >> THEN << >>
    ELSE Chars(formatted[1][1]) \o Chars(":") \o Chars(" ") \o formatted[1][2]
         \o (IF Len(formatted) = 1 THEN << >> ELSE << NL >> \o RulesPrompt(Tail(formatted)))

\* The pieces the enumerated rules texts are made of.
RulePieces == {"Make", "Note", ":", " ", "-", "\n", "[parent_folder]", "[grandparent_folder]"}

\* default_rules, the text the rules box starts with.
default_rules ==
    << "Title: [parent_folder] - [ai_description]", "\n",
       "Make: [grandparent_folder]", "\n",
       "Model: [parent_folder]", "\n",
       "Description: [ai_vision_analysis]", "\n",
       "Keywords: [folder_keywords], [ai_keywords]", "\n",
       "Artist: [Your Company Name]", "\n",
       "\n",
       "Instructions for AI:", "\n",
       "- Analyze folder structure first using tool use", "\n",
       "- For each image, combine folder context with visual analysis", "\n",
       "- Extract product codes from filenames (e.g., F032_ST78)", "\n",
       "- Be specific and descriptive in image descriptions" >>

\* Rules texts a user can type, longer than the enumerated ones.
ExampleRules ==
    { default_rules,
      << "Title: [parent_folder] - [ai_description]" >>,
      << "Instructions for AI: be brief", "\n", "- Make: none", "\n", "Note: a: b", "\n",
         "  -x  ", "\n", "plain" >>,
      << "Make : [filename]", "\n", "make: x", "\n", "Make: [[grandparent_folder]filename]" >>,
      << "Model: [parent_folder]/[filename]/[grandparent_folder]" >> }

RuleTexts == {Text(p) : p \in UNION {[1..k -> RulePieces] : k \in 0..MaxTextLen}}

\* Path(image_path).parts[-2], parts[-3] and stem of an image, the
\* grandparent being '' for a path of two parts.
FolderContexts ==
    { [parent |-> Chars("kitchens"), grandparent |-> << >>, filename |-> Chars("F032_a")],
      [parent |-> Chars("kitchens"), grandparent |-> Chars("showroom"),
       filename |-> Chars("F032_a")] }

\* Further folders: the folder of the documented example, and folders whose
\* names are themselves spelled like placeholders.
ExampleContexts ==
    FolderContexts \cup
    { [parent |-> Chars("Kitchens"), grandparent |-> Chars("showroom"),
       filename |-> Chars("F032_a")],
      [parent |-> Chars("[filename]"), grandparent |-> Chars("[parent_folder]"),
       filename |-> Chars("F032_a")] }

\* ------------------------------------------------------------------ persist dispatch
\* save_metadata: save_main_jpeg_metadata and save_main_webp_metadata raise
\* what goes wrong, its except reports the error; an unsupported type is
\* answered with a warning.  "True" stands for the success message, "False"
\* for the warning or the error message.
save_metadata_outcome(path, io) ==
    Caught(CASE Backend(path) = "jpeg" -> (IF io THEN "True" ELSE "raise")
             [] Backend(path) = "webp" -> (IF io THEN "True" ELSE "raise")
             [] OTHER                  -> "False")

\* The functions that persist a record into an image file.
PersistEntries == {"_save_metadata_to_file", "_save_metadata_for_batch", "save_metadata"}

\* Does the call write the image file?  The direct JPEG save opens the file
\* itself; the batch backends are not entered when the call does not bind;
\* save_metadata moves the temp file onto it after a backend that succeeded.
PersistWrites(entry, path, io) ==
    CASE entry = "_save_metadata_to_file"   -> Backend(path) = "jpeg"
      [] entry = "_save_metadata_for_batch" ->
             \/ Backend(path) = "jpeg" /\ CallBinds(BatchSaveGivenArgs, JpegSaveRequiredArgs)
             \/ Backend(path) = "webp" /\ CallBinds(BatchSaveGivenArgs, WebpSaveRequiredArgs)
      [] entry = "save_metadata"            -> Backend(path) # "none" /\ io

persist(entry, path, io) ==
    [ backend |-> Backend(path),
      outcome |-> CASE entry = "_save_metadata_to_file"   -> metadata_to_file_outcome(path, io)
                    [] entry = "_save_metadata_for_batch" -> metadata_for_batch_outcome(path, io)
                    [] entry = "save_metadata"            -> save_metadata_outcome(path, io),
      wrote   |-> PersistWrites(entry, path, io) ]

\* The paths handed to persist: the suffix in both cases, an unsupported
\* suffix and no suffix.
PersistPaths ==
    {ImagePath("kitchens", "F032_a", e) :
        e \in {".jpg", ".JPG", ".jpeg", ".JPEG", ".webp", ".WEBP", ".png", ""}}

\* ------------------------------------------------------------------ WebP write paths
\* The external tool as a save finds it: not located ("-ver" never answers
\* 0), located and exiting with a non-zero status, located and exiting 0.
ToolStates == {"missing", "nonzero", "zero"}

\* The tool was located and run, whatever its exit status.
ExifToolRan(tool) == tool # "missing"

\* exiftool_cmd was found and result.returncode == 0.
ExifToolSucceeded(tool) == tool = "zero"

\* save_main_webp_metadata / save_simple_webp_metadata: raise
\* "ExifTool not found" or "ExifTool failed", answer None otherwise.
save_main_webp_metadata_outcome(tool) ==
    IF ExifToolSucceeded(tool) THEN "None" ELSE "raise"

\* _try_exiftool_webp_save: False when no tool is found, else
\* result.returncode == 0.
try_exiftool_webp_save(tool) == ExifToolSucceeded(tool)

\* _save_webp_metadata: returns after the tool succeeded, otherwise saves
\* through PIL; no return value either way.
save_webp_metadata_outcome(tool) ==
    IF try_exiftool_webp_save(tool) THEN "None" ELSE "None"

\* The functions that persist a record into a WebP file.
WebpEntries == {"save_metadata", "save_simple_metadata",
                "_save_metadata_for_batch", "_save_metadata_to_file"}

\* What persisting into a .webp file answers: "True" for the success message
\* of the two tabs and for a True handed to the batch loop.
webp_persist(entry, tool) ==
    CASE entry \in {"save_metadata", "save_simple_metadata"} ->
             Caught(IF save_main_webp_metadata_outcome(tool) = "raise"
                    THEN "raise" ELSE "True")
      [] entry = "_save_metadata_for_batch" ->
             Caught(IF CallBinds(BatchSaveGivenArgs, WebpSaveRequiredArgs)
                    THEN save_webp_metadata_outcome(tool) ELSE "raise")
      [] entry = "_save_metadata_to_file" ->
             Caught(webp_direct_outcome(ExifToolSucceeded(tool)))

\* ------------------------------------------------------------------ filename context
\* Most tokens of the file names that are enumerated.
MaxTokens == 6

Dot == 46
Underscore == 95

\* Path(filename).name for a name without separators: '.' is the current
\* directory and has no name.
PathName(filename) == IF filename = << Dot >> THEN << >> ELSE filename

\* PurePath.stem: the name up to its last dot, the whole name when that dot
\* is its first or its last character or when it has none.
PathStem(filename) ==
    LET name == PathName(filename)
        dots == {i \in 1..Len(name) : name[i] = Dot}
    IN  IF dots # {} /\ SetMax(dots) > 1 /\ SetMax(dots) < Len(name)
        THEN SubSeq(name, 1, SetMax(dots) - 1)
        ELSE name

\* "if len(parts) >= 6" read as "if len(parts) >= 5".
FiveParts(parts) == Len(parts) >= 5

\* if len(parts) >= 6
EnoughParts(parts) == Len(parts) >= 6

\* parse_filename_data
parse_filename_data(filename) ==
    LET parts == split(PathStem(filename), Underscore)
        Part(i) == IF EnoughParts(parts) THEN parts[i] ELSE << >>
    IN  [ filename |-> filename,
          code     |-> Part(1),
          type     |-> Part(2),
          color    |-> Part(3),
          name     |-> Part(4),
          category |-> Part(5),
          number   |-> IF EnoughParts(parts) /\ Len(parts) > 5 THEN parts[6] ELSE << >> ]

\* The tokens and endings the enumerated file names are made of.
NameTokens == {"", "a", "F032"}
NameEndings == {"", ".", ".jpg", ".tar.gz"}

\* '_'.join(tokens)
RECURSIVE JoinTokens(_)
JoinTokens(tokens) ==
    IF Len(tokens) = 1 THEN Chars(tokens[1])
    ELSE Chars(tokens[1]) \o << Underscore >> \o JoinTokens(Tail(tokens))

ExampleFilename ==
    Text(<< "F032", "_", "ST78", "_", "Grey", "_", "Cascia", "_", "Granite", "_",
            "room", "_", "images", "_", "000", ".", "jpg" >>)

FileNames ==
    {JoinTokens(t) \o Chars(e) :
        t \in UNION {[1..k -> NameTokens] : k \in 1..MaxTokens}, e \in NameEndings}
      \cup {ExampleFilename}

\* ------------------------------------------------------------------ vision call sites
\* The three callers of _call_lm_studio_api_with_context, from its response
\* on: the model calls the caller has made when it is done with the image, in
\* order, and the response it goes on with (<< >> is no response). response is
\* what the vision call returned, text_response what a text-only call returns.
\*   chat_with_image:  _process_chat_with_image, lines 4550-4581, falls back
\*                     to _call_lm_studio_text_api with a filename prompt;
\*   single_image_ai:  _process_single_image_ai, lines 5879-5890, returns
\*                     False without a response;
\*   batch_context:    _process_image_with_batch_context, lines 329-336,
\*                     returns None without a response.
after_vision_call(caller, response, text_response) ==
    CASE caller = "chat_with_image" ->
            IF response # << >>
            THEN [calls |-> << "vision" >>, answer |-> response]
            ELSE [calls |-> << "vision", "text" >>, answer |-> text_response]
      [] caller = "single_image_ai" ->
            [calls |-> << "vision" >>, answer |-> response]
      [] caller = "batch_context" ->
            [calls |-> << "vision" >>, answer |-> response]

VisionCallers == {"chat_with_image", "single_image_ai", "batch_context"}

\* ------------------------------------------------------------------ metadata calls
Call(fn, arg) == [fn |-> fn, arg |-> arg]

\* The pieces the enumerated responses are made of.
TextPieces == {"Title", "Make", ":", " ", "\n", "Modern Oak Kitchen"}

PieceSeqs(n) == UNION {[1..k -> TextPieces] : k \in 0..n}

\* Responses of the model that are checked besides the enumerated ones.
ExampleResponses ==
    { << "Title", ":", " ", "Modern Oak Kitchen", "\n", "Make", ":", " ", "F032" >>,
      << "Title", ":", " ", "Oak", "\n", "Artist", ":", " " >>,
      << "Artist", ":", "\n", "Make", ":", " ", "F032" >>,
      << "Make", ":", " ", "F032", "\n", "Model", ":", " ", "ST78" >>,
      << "{", "\"", "title", "\"", ":", " ", "\"", "Oak", "\"", "}" >>,
      << "<title>", "Oak", "</title>" >>,
      << "Name", ":", " ", "\"", "Oak", "\"" >>,
      << "###", " ", "Modern Oak Kitchen", " ", "EGGER" >>,
      << "F032", " ", "ST78" >>,
      << "Oak" >>,
      << "Title", ":", " ", "Modern Oak Kitchen", "\n", "Description", ":", " ", "Oak", "\n",
         "Keywords", ":", " ", "Oak", "\n", "Make", ":", " ", "F032" >> }

ResponseTexts == {Text(p) : p \in PieceSeqs(MaxTextLen) \cup ExampleResponses}

\* The images a batch thread is given: the files of the save paths, and one
\* whose name has the six parts parse_filename_data looks for.
BatchImagePaths ==
    SaveFiles \cup {ImagePath("kitchens", "H110_ST9_Grey_Oak_room_000", ".jpg")}

\* _process_single_image_ai, lines 5847-5848 (and _process_chat_with_image,
\* 4486-4487): filename_data = self.parse_filename_data(Path(image_path).name),
\* as the dict the parser's Make/Model fallback would read it.
own_filename_data(image_path) ==
    LET filename_data == parse_filename_data(Chars(image_path.stem) \o Chars(image_path.suffix))
    IN  [present |-> TRUE, code |-> filename_data.code, type |-> filename_data.type]

\* self.current_filename_data as a batch thread can find it.
FilenameDataChoices ==
    { NoFilenameData,
      [present |-> TRUE, code |-> Chars("F032"), type |-> Chars("ST78")],
      [present |-> TRUE, code |-> << >>, type |-> << >>] }

Calls ==
    {Call("simple_jpeg", r) : r \in FullRecords}
      \cup {Call("parse", [text |-> s, fdata |-> d]) :
                s \in ResponseTexts, d \in FilenameDataChoices}
      \cup {Call("batch_rules", [rules_text |-> s, context |-> c]) :
                s \in RuleTexts, c \in FolderContexts}
      \cup {Call("batch_rules", [rules_text |-> Text(p), context |-> c]) :
                p \in ExampleRules, c \in ExampleContexts}
      \cup {Call("persist", [entry |-> e, path |-> f, io |-> io]) :
                e \in PersistEntries, f \in PersistPaths, io \in BOOLEAN}
      \cup {Call("webp_persist", [entry |-> e, tool |-> t]) :
                e \in WebpEntries, t \in ToolStates}
      \cup {Call("filename", n) : n \in FileNames}
      \cup {Call("jpeg_write", [path |-> w, record |-> r]) :
                w \in JpegWritePaths, r \in WriteRecords}
      \cup {Call(fn, [path |-> f, text |-> Text(p), fdata |-> d, io |-> io]) :
                fn \in {"single_image_ai", "automated_batch_image"},
                f \in BatchImagePaths, p \in ExampleResponses \cup {<< >>},
                d \in FilenameDataChoices, io \in BOOLEAN}
      \cup {Call("vision", [caller |-> c, response |-> Text(r), text_response |-> Text(x)]) :
                c \in VisionCallers, r \in ExampleResponses \cup {<< >>},
                x \in ExampleResponses \cup {<< >>}}

\* A metadata function is about to be called with one of the inputs.
InitMeta ==
    /\ InitProgram
    /\ m_pc = "called"
    /\ m_call \in Calls
    /\ m_out = NoCall

MetaReturn(fn, out) ==
    /\ m_pc = "called"
    /\ m_call.fn = fn
    /\ m_pc' = "returned"
    /\ m_out' = out
    /\ UNCHANGED << m_call, batchVars, compressVars, saveVars >>

\* save_simple_metadata on a .jpg file: the record goes into the file.
call_save_simple_jpeg_metadata ==
    /\ m_pc = "called"
    /\ m_call.fn = "simple_jpeg"
    /\ m_pc' = "saved"
    /\ m_out' = save_simple_jpeg_metadata(m_call.arg)
    /\ UNCHANGED << m_call, batchVars, compressVars, saveVars >>

\* load_simple_metadata on the file just saved.
call_load_simple_metadata ==
    /\ m_pc = "saved"
    /\ m_call.fn = "simple_jpeg"
    /\ m_pc' = "returned"
    /\ m_out' = load_simple_metadata(getexif(m_out))
    /\ UNCHANGED << m_call, batchVars, compressVars, saveVars >>

\* _parse_ai_response_for_metadata(ai_response)
call_parse_ai_response_for_metadata ==
    MetaReturn("parse", parse_ai_response_for_metadata(m_call.arg.text, m_call.arg.fdata))

\* _process_single_image_ai(image_path, rules) once the model has answered.
call_process_single_image_ai ==
    MetaReturn("single_image_ai",
               process_single_image_ai(m_call.arg.path, m_call.arg.text,
                                       m_call.arg.fdata, m_call.arg.io))

\* One of the JPEG write paths, called with a record.
call_jpeg_write ==
    MetaReturn("jpeg_write", jpeg_write(m_call.arg.path, m_call.arg.record))

\* _automated_batch_thread: rules = self._parse_batch_rules(rules_text)
call_parse_batch_rules ==
    /\ m_pc = "called"
    /\ m_call.fn = "batch_rules"
    /\ m_pc' = "parsed"
    /\ m_out' = [rules        |-> parse_batch_rules(m_call.arg.rules_text),
                  instructions |-> batch_instructions(m_call.arg.rules_text)]
    /\ UNCHANGED << m_call, batchVars, compressVars, saveVars >>

\* _parse_batch_rules applied to the instructions text it produced.
call_parse_batch_rules_again ==
    /\ m_pc = "parsed"
    /\ m_call.fn = "batch_rules"
    /\ m_pc' = "reparsed"
    /\ m_out' = [first  |-> m_out,
                  second |-> [rules        |-> parse_batch_rules(m_out.instructions),
                              instructions |-> batch_instructions(m_out.instructions)]]
    /\ UNCHANGED << m_call, batchVars, compressVars, saveVars >>

\* _process_image_with_batch_context: the rules rendered for one image.
call_format_rules_for_prompt ==
    /\ m_pc = "parsed"
    /\ m_call.fn = "batch_rules"
    /\ m_pc' = "returned"
    /\ m_out' = LET formatted == format_rules_for_prompt(m_out.rules,
                                      m_call.arg.context.parent,
                                      m_call.arg.context.grandparent,
                                      m_call.arg.context.filename)
                IN  [rules |-> m_out.rules, fields |-> formatted,
                     prompt |-> RulesPrompt(formatted)]
    /\ UNCHANGED << m_call, batchVars, compressVars, saveVars >>

\* _save_metadata_to_file / _save_metadata_for_batch / save_metadata
call_persist ==
    MetaReturn("persist", persist(m_call.arg.entry, m_call.arg.path, m_call.arg.io))

\* A save of a .webp file through one of its entries.
call_webp_persist ==
    MetaReturn("webp_persist", webp_persist(m_call.arg.entry, m_call.arg.tool))

\* _automated_batch_thread: the body of its loop once the model has answered.
call_automated_batch_image ==
    MetaReturn("automated_batch_image",
               automated_batch_image(m_call.arg.path, m_call.arg.text,
                                     m_call.arg.fdata, m_call.arg.io))

\* parse_filename_data(filename)
call_parse_filename_data ==
    MetaReturn("filename", parse_filename_data(m_call.arg))

\* One of the callers of the vision call, once the model has answered or not.
call_vision_model ==
    MetaReturn("vision", after_vision_call(m_call.arg.caller, m_call.arg.response,
                                           m_call.arg.text_response))

NextMeta ==
    \/ call_save_simple_jpeg_metadata
    \/ call_load_simple_metadata
    \/ call_parse_ai_response_for_metadata
    \/ call_process_single_image_ai
    \/ call_automated_batch_image
    \/ call_jpeg_write
    \/ call_persist
    \/ call_webp_persist
    \/ call_parse_filename_data
    \/ call_parse_batch_rules
    \/ call_parse_batch_rules_again
    \/ call_format_rules_for_prompt
    \/ call_vision_model

SpecMeta == InitMeta /\ [][NextMeta]_vars


\* ------------------------------------------------------------------ claims
Running(t) == pc[t] \notin {"idle", "done"}
InLoop(t) == pc[t] \in {"loop", "call", "persist"}
Recorded(t) == success_count[t] + error_count[t]
CallsOf(t) == {c \in inflight : c[1] = t}
Position(t) == << pc[t], idx[t], success_count[t], error_count[t] >>

\* C1: in a batch run, an image whose file cannot be read, whose model call
\* returns nothing, whose parse is empty or whose save fails adds exactly one
\* to the failure counter and nothing to the success counter, the loop cursor
\* moves to the next image (no second call for the same image), and the run
\* leaves the loop only when the list is exhausted.
C1_PerImageFailureCounted ==
    [][\A t \in Threads :
         (InLoop(t) /\ Position(t)' # Position(t)) =>
           /\ (pc[t] \in {"loop", "call"} /\ pc'[t] = "loop") =>
                 /\ error_count'[t] = error_count[t] + 1
                 /\ success_count'[t] = success_count[t]
                 /\ idx'[t] = idx[t] + 1
           /\ (pc[t] = "persist") =>
                 /\ pc'[t] = "loop"
                 /\ idx'[t] = idx[t] + 1
                 /\ \/ /\ error_count'[t] = error_count[t] + 1
                       /\ success_count'[t] = success_count[t]
                    \/ /\ error_count'[t] = error_count[t]
                       /\ success_count'[t] = success_count[t] + 1
                 /\ ~fs_ok => error_count'[t] = error_count[t] + 1
           /\ (pc'[t] = "done") => (pc[t] = "loop" /\ idx[t] = Len(images[t]))
           /\ \A c \in CallsOf(t)' \ CallsOf(t) : c[2] = Recorded(t) + 1
    ]_vars

\* C1 witness: after a counted failure the run is waiting for the next
\* image's response.
C1_Witness ==
    \E t \in Threads : pc[t] = "call" /\ error_count[t] >= 1 /\ success_count[t] = 0

\* C2 (as claimed): an image whose call and parse succeeded and whose save the
\* file system and the format allow is counted as a success, not as a failure,
\* and the completion message accounts for every image of the list.
C2_CountsMatchOutcomes ==
    [][\A t \in Threads :
         /\ (pc[t] = "persist" /\ pc'[t] = "loop"
               /\ SupportedSuffix(images[t][idx[t] + 1]) /\ fs_ok) =>
                 /\ success_count'[t] = success_count[t] + 1
                 /\ error_count'[t] = error_count[t]
         /\ (pc[t] = "loop" /\ pc'[t] = "done") =>
                 summary'[t].succeeded + summary'[t].failed = Len(images[t])
    ]_vars

\* C3: within a run at most one model call is in flight, and it is the call for
\* the image right after the ones whose result is recorded; while an image is
\* being saved no call of the run is in flight.
C3_SequentialInOrder ==
    \A t \in Threads :
        /\ Cardinality(CallsOf(t)) <= 1
        /\ \A c \in CallsOf(t) :
              \/ c[2] = 0 /\ pc[t] = "analysis"
              \/ c[2] = Recorded(t) + 1 /\ pc[t] = "call"
        /\ InLoop(t) => idx[t] = Recorded(t)
        /\ pc[t] = "persist" => CallsOf(t) = {}

\* C3 witness: the call for the second image is in flight, the first recorded.
C3_Witness ==
    \E t \in Threads : <<t, 2>> \in inflight /\ Recorded(t) = 1

\* C4 (as claimed): at most one batch worker is executing.
C4_AtMostOneRun == Cardinality({t \in Threads : Running(t)}) <= 1

\* C5 (as claimed): a start with an empty image list or a blank rule text starts
\* no worker thread.
C5_EmptyInputRejected ==
    [][\A t \in Threads :
         (pc'[t] = "started" /\ pc[t] # "started") =>
           /\ rules_text'[t] # "blank"
           /\ kind'[t] = "auto" => chat_folder_images # << >>
           /\ kind'[t] = "ai" => image_files # << >>
    ]_vars

\* C8 (as claimed): the last message of every run that has ended is a summary
\* carrying succeeded, failed and total.
C8_SummaryCarriesCounts ==
    \A t \in Threads :
        pc[t] = "done" =>
           /\ summary[t].type = "complete"
           /\ {"succeeded", "failed", "total"} \subseteq DOMAIN summary[t]

\* The count fields a summary carries, added up.
Accounted(m) ==
    m.succeeded + m.failed + (IF "skipped" \in DOMAIN m THEN m.skipped ELSE 0)

C7_SummaryAccountsForAll ==
    \A t \in Threads :
        (cpc[t] = "done" /\ ctotal[t] > 0 /\ \A u \in Threads \ {t} : cpc[u] = "idle") =>
            Accounted(CompressSummary) = ctotal[t]

\* C9 (as claimed): no original file is ever seen partly written, and after a
\* save that failed or returned early its temp file does not exist.
C9_WriteViaTempOnly ==
    /\ \A f \in SaveFiles : content[f] # "partial"
    /\ (ui_pc = "idle" /\ ui_result \in {"failed", "unsupported"}) =>
           TempPath(ui_op, ui_file) \notin temps

\* C10 (as claimed): no path is open for writing by two writers at once.
C10_SingleWriterPerPath ==
    \A f \in SaveFiles : Cardinality(OpenForWrite(f)) <= 1

\* C11 (as claimed): no worker thread ever writes a widget; only the main
\* thread (the handlers and check_queue) does.
C11_WorkerNeverWritesDisplay == "worker" \notin display_writers

\* C12: a record of non-empty ASCII strings over the six fields that is saved
\* to a JPEG by save_simple_jpeg_metadata and read back by
\* load_simple_metadata comes back as the same six strings, the byte-order
\* mark of XPTitle and XPKeywords stripped on decode.
C12_JpegRoundTrip ==
    (m_call.fn = "simple_jpeg" /\ m_pc = "returned") => m_out = m_call.arg

C12_Witness ==
    /\ m_call.fn = "simple_jpeg"
    /\ m_pc = "returned"
    /\ m_call.arg["XPTitle"] = << 65, 122 >>
    /\ m_call.arg["Artist"] = << 122 >>
    /\ m_out["XPTitle"] = << 65, 122 >>

\* C13 (as claimed): for a JPEG image of a batch run that is reported as
\* succeeded, every canonical field the parsed record holds with a non-empty
\* value is in the file under its fixed tag, and a field absent from the
\* record has no tag written.
C13_ParsedFieldsWritten ==
    (/\ m_call.fn = "single_image_ai" /\ m_pc = "returned" /\ m_out.success
     /\ Lower(m_call.arg.path.suffix) \in {".jpg", ".jpeg"}) =>
        \A f \in CanonicalFields :
            /\ Get(m_out.metadata, f) => TagId(SaveKey(f)) \in DOMAIN m_out.exif
            /\ f \notin DOMAIN m_out.metadata => TagId(SaveKey(f)) \notin DOMAIN m_out.exif

C15_NoEmptyValue ==
    /\ (m_call.fn = "batch_rules" /\ m_pc = "returned") =>
           \A i \in 1..Len(m_out.fields) : strip(m_out.fields[i][2]) # << >>
    /\ (m_call.fn = "parse" /\ m_pc = "returned") =>
           \A k \in DOMAIN m_out : m_out[k] # << >>
    /\ (m_call.fn = "single_image_ai" /\ m_pc = "returned") =>
           \A tag \in DOMAIN m_out.exif : m_out.exif[tag] # << >>

\* C16: persist picks its backend from the lower-cased suffix: the JPEG
\* backend for .jpg and .jpeg, the WebP backend for .webp, and for any other
\* suffix it answers failure without writing the file; whatever a backend
\* raises, persist answers failure and raises nothing itself.
C16_PersistDispatch ==
    (m_call.fn = "persist" /\ m_pc = "returned") =>
        /\ m_out.outcome # "raise"
        /\ m_call.arg.path.suffix \in {".jpg", ".JPG", ".jpeg", ".JPEG"}
               => m_out.backend = "jpeg"
        /\ m_call.arg.path.suffix \in {".webp", ".WEBP"} => m_out.backend = "webp"
        /\ m_call.arg.path.suffix \in {".png", ""} =>
               /\ m_out.backend = "none"
               /\ m_out.outcome = "False"
               /\ ~m_out.wrote
        /\ ~m_call.arg.io => m_out.outcome # "True"

C16_Witness ==
    /\ m_call.fn = "persist"
    /\ m_pc = "returned"
    /\ m_call.arg.entry = "_save_metadata_to_file"
    /\ m_call.arg.path.suffix = ".JPG"
    /\ ~m_call.arg.io
    /\ m_out.backend = "jpeg"
    /\ m_out.outcome = "False"

NothingToExtract(text, fdata) ==
    /\ \A i \in 1..Len(text) : text[i] \notin {Colon, Equals, LessThan} /\ ~IsQuote(text[i])
    /\ \A line \in {split(text, NL)[i] : i \in 1..Len(split(text, NL))} : Len(strip(line)) <= 20
    /\ \A i \in 1..Len(keyword_indicators) : ~In(Chars(keyword_indicators[i]), lower(text))
    /\ ~In(Chars("egger"), lower(text))
    /\ ~fdata.present \/ (fdata.code = << >> /\ fdata.type = << >>)

\* C18: _parse_ai_response_for_metadata answers a dict for every text (its
\* keys among the six field names), the empty dict when nothing can be
\* extracted; and a caller that gets the empty dict calls no save and reports
\* the image as failed.
C18_ParserTotalAndEmptyFails ==
    /\ (m_call.fn = "parse" /\ m_pc = "returned") =>
           /\ DOMAIN m_out \subseteq CanonicalFields
           /\ NothingToExtract(m_call.arg.text, m_call.arg.fdata) => m_out = EmptyDict
    /\ (m_call.fn \in {"single_image_ai", "automated_batch_image"} /\ m_pc = "returned") =>
           (m_out.metadata = EmptyDict => ~m_out.persist /\ ~m_out.success)

C18_Witness ==
    /\ m_call.fn = "single_image_ai"
    /\ m_pc = "returned"
    /\ m_call.arg.text = Text(<< "F032", " ", "ST78" >>)
    /\ m_call.arg.path.suffix = ".jpg"
    /\ m_call.arg.io
    /\ m_out.metadata = EmptyDict
    /\ ~m_out.persist

\* The lines of a response, and the field a line "<FieldName>: <value>" names
\* ("" when the text before its first colon is none of the six names).
ResponseLines(text) == split(text, NL)
LineField(line) ==
    IF In(<< Colon >>, line)
    THEN FieldNamed(SubSeq(line, 1, SetMin({i \in 1..Len(line) : line[i] = Colon}) - 1))
    ELSE ""
LineValue(line) ==
    strip(SubSeq(line, SetMin({i \in 1..Len(line) : line[i] = Colon}) + 1, Len(line)))

\* A response made only of lines "<FieldName>: <value>", each field at most
\* once and each value non-empty.
OnlyLabelledLines(text) ==
    LET lines == ResponseLines(text)
    IN  /\ \A i \in 1..Len(lines) : LineField(lines[i]) # "" /\ LineValue(lines[i]) # << >>
        /\ \A i, j \in 1..Len(lines) : LineField(lines[i]) = LineField(lines[j]) => i = j

\* The record such a response spells.
LabelledRecord(text) ==
    LET lines == ResponseLines(text)
    IN  [f \in {LineField(lines[i]) : i \in 1..Len(lines)} |->
            LineValue(lines[CHOOSE i \in 1..Len(lines) : LineField(lines[i]) = f])]

\* C19 (as claimed): from a response made only of lines "<FieldName>: <value>"
\* the parser returns exactly the named fields with the trimmed text after the
\* colon, and from a response with no colon in it the empty record (no
\* filename data being set).
C19_ExactlyLabelledFields ==
    (m_call.fn = "parse" /\ m_pc = "returned" /\ ~m_call.arg.fdata.present) =>
        /\ OnlyLabelledLines(m_call.arg.text) => m_out = LabelledRecord(m_call.arg.text)
        /\ ~In(<< Colon >>, m_call.arg.text) => m_out = EmptyDict

\* The five context fields of a parse_filename_data result.
ContextFields(d) == << d.code, d.type, d.color, d.name, d.category >>

\* s starts with the given tokens, each followed by an underscore.
RECURSIVE StartsWithTokens(_, _)
StartsWithTokens(s, tokens) ==
    \/ tokens = << >>
    \/ /\ At(s, 1, Head(tokens) \o << Underscore >>)
       /\ StartsWithTokens(SubSeq(s, Len(Head(tokens)) + 2, Len(s)), Tail(tokens))

\* C20: parse_filename_data splits the stem of the file name on '_': a stem
\* of at least 6 tokens (5 underscores) gives its tokens 0..4 as code, type,
\* color, name and category, a stem of fewer gives five empty strings, and
\* the example name gives F032, ST78, Grey, Cascia, Granite.
C20_FilenameContext ==
    (m_call.fn = "filename" /\ m_pc = "returned") =>
        LET stem == PathStem(m_call.arg)
            underscores == Cardinality({i \in 1..Len(stem) : stem[i] = Underscore})
            five == ContextFields(m_out)
        IN  /\ underscores >= 5 =>
                /\ StartsWithTokens(stem, five)
                /\ \A i \in 1..5 : ~In(<< Underscore >>, five[i])
            /\ underscores < 5 => five = << << >>, << >>, << >>, << >>, << >> >>
            /\ m_call.arg = ExampleFilename =>
                   five = << Chars("F032"), Chars("ST78"), Chars("Grey"),
                             Chars("Cascia"), Chars("Granite") >>

C20_Witness ==
    /\ m_call.fn = "filename"
    /\ m_pc = "returned"
    /\ m_call.arg = ExampleFilename
    /\ m_out.code = Chars("F032")
    /\ m_out.category = Chars("Granite")

\* The non-blank lines of a rules text, trimmed, in input order.
NonBlank(line) == line # << >>
RuleLines(text) ==
    LET lines == split(text, NL)
    IN  SelectSeq([i \in 1..Len(lines) |-> strip(lines[i])], NonBlank)

\* The trimmed text before the first colon of a line that has one.
RuleLabel(line) ==
    strip(SubSeq(line, 1, SetMin({i \in 1..Len(line) : line[i] = Colon}) - 1))

\* What a trimmed line of a rules text is: the template of a field, the
\* heading of the instructions section, an instruction, or nothing.
RuleLineKind(line) ==
    IF In(<< Colon >>, line)
    THEN IF FieldNamed(RuleLabel(line)) # "" THEN "field"
         ELSE IF RuleLabel(line) = Chars("Instructions for AI") THEN "heading"
         ELSE "instruction"
    ELSE IF Head(line) = 45 THEN "instruction"
    ELSE "none"

IsInstruction(line) == RuleLineKind(line) = "instruction"

\* C21: _parse_batch_rules records a field template for exactly the lines
\* whose label (the text before the first colon, trimmed) is one of the six
\* field names, the last such line of a field giving its template; it drops
\* the heading line "Instructions for AI:"; and the instructions block is
\* every other line with a colon or a leading hyphen, in input order.  No
\* other label becomes a field.
C21_RuleLinesClassified ==
    (m_call.fn = "batch_rules" /\ m_pc = "parsed") =>
        LET lines == RuleLines(m_call.arg.rules_text)
            fieldLines == {i \in 1..Len(lines) : RuleLineKind(lines[i]) = "field"}
            Last(f) == SetMax({i \in fieldLines : FieldNamed(RuleLabel(lines[i])) = f})
        IN  /\ Keys(m_out.rules) = {FieldNamed(RuleLabel(lines[i])) : i \in fieldLines}
            /\ Keys(m_out.rules) \subseteq CanonicalFields
            /\ \A k \in 1..Len(m_out.rules) :
                   m_out.rules[k][2] = LineValue(lines[Last(m_out.rules[k][1])])
            /\ m_out.instructions = join_lines(SelectSeq(lines, IsInstruction))

\* The default rules are parsed: six templates and the four hyphen lines.
C21_Witness ==
    /\ m_call.fn = "batch_rules"
    /\ m_pc = "parsed"
    /\ m_call.arg.rules_text = Text(default_rules)
    /\ Keys(m_out.rules) = CanonicalFields
    /\ Len(split(m_out.instructions, NL)) = 4
    /\ ~In(Chars("Instructions for AI"), m_out.instructions)

\* C22: parsing the instructions block that _parse_batch_rules produced
\* gives the same instructions block again (trailing white space aside) and
\* no field template.
C22_InstructionsIdempotent ==
    (m_call.fn = "batch_rules" /\ m_pc = "reparsed") =>
        /\ strip(m_out.second.instructions) = strip(m_out.first.instructions)
        /\ m_out.second.rules = << >>

\* A block of several instruction lines, one of them with two colons, is
\* parsed again.
C22_Witness ==
    /\ m_call.fn = "batch_rules"
    /\ m_pc = "reparsed"
    /\ In(Chars("Note: a: b"), m_out.first.instructions)
    /\ Len(split(m_out.first.instructions, NL)) = 3
    /\ m_out.first.rules = << >>

\* A template with the three placeholders replaced by the context values in
\* one pass from left to right; what a value holds is not looked at again.
RECURSIVE Substituted(_, _)
Substituted(s, context) ==
    IF s = << >> THEN << >>
    ELSE IF At(s, 1, Chars("[parent_folder]"))
    THEN context.parent
         \o Substituted(SubSeq(s, Len(Chars("[parent_folder]")) + 1, Len(s)), context)
    ELSE IF At(s, 1, Chars("[grandparent_folder]"))
    THEN context.grandparent
         \o Substituted(SubSeq(s, Len(Chars("[grandparent_folder]")) + 1, Len(s)), context)
    ELSE IF At(s, 1, Chars("[filename]"))
    THEN context.filename
         \o Substituted(SubSeq(s, Len(Chars("[filename]")) + 1, Len(s)), context)
    ELSE << Head(s) >> \o Substituted(Tail(s), context)

\* C23 (as claimed): _format_rules_for_prompt replaces only the tokens
\* [parent_folder], [grandparent_folder] and [filename] of a template by the
\* context values of the image; every other bracketed token and all other
\* text, the text of the context values included, pass through unchanged,
\* and "[parent_folder] - [ai_description]" in folder Kitchens gives
\* "Kitchens - [ai_description]".
C23_OnlyPlaceholdersReplaced ==
    (m_call.fn = "batch_rules" /\ m_pc = "returned") =>
        /\ Len(m_out.fields) = Len(m_out.rules)
        /\ \A i \in 1..Len(m_out.rules) :
               /\ m_out.fields[i][1] = m_out.rules[i][1]
               /\ m_out.fields[i][2] = Substituted(m_out.rules[i][2], m_call.arg.context)
        /\ (/\ m_call.arg.rules_text = Chars("Title: [parent_folder] - [ai_description]")
            /\ m_call.arg.context.parent = Chars("Kitchens"))
               => m_out.fields = << << "Title", Text(<< "Kitchens", " - ", "[ai_description]" >>) >> >>

\* The label the primary pattern r'<label>\s*:\s*(.+?)(?:\n|$)' has for a field.
PrimaryLabel(f) ==
    CASE f = "Title"       -> "title"
      [] f = "Description" -> "description"
      [] f = "Keywords"    -> "keywords"
      [] f = "Artist"      -> "artist"
      [] f = "Make"        -> "make"
      [] f = "Model"       -> "model"

\* C24 (as claimed): a field for which the primary "<FieldName>: <value>"
\* pattern matches a non-blank value in the response gets the trimmed value of
\* that match; no
\* fallback (longest line, keyword list, quoted patterns, filename context,
\* placeholder artist) replaces it or is taken in its place.
C24_PrimaryBeforeFallback ==
    (m_call.fn = "parse" /\ m_pc = "returned") =>
        \A f \in CanonicalFields :
            \A hit \in {re_search(Structured(PrimaryLabel(f)), m_call.arg.text)} :
                (hit.found /\ strip(hit.group) # << >>) =>
                    f \in DOMAIN m_out /\ m_out[f] = strip(hit.group)

\* The compression worker threads that are inside optimize_image for an image
\* of their list (process_images_thread, line 1259).
ProcessingWorkers == {t \in Threads : cpc[t] = "image"}

\* C30 (as claimed): under any interleaving of start_compression,
\* stop_compression, the worker's loop steps and check_queue, a stop followed
\* at once by a start while the earlier worker is inside an image included, at
\* most one compression worker thread is processing images at any time.
C30_OneCompressionWorker == Cardinality(ProcessingWorkers) <= 1

\* C25 (as claimed): when the vision call returns no result, the caller makes
\* one text-only call before the image is treated as failed, and the image is
\* failed for want of a model response only when the vision call and the
\* text-only call both returned nothing.
C25_TwoTierDegradation ==
    (m_call.fn = "vision" /\ m_pc = "returned" /\ m_call.arg.response = << >>) =>
        /\ m_out.calls = << "vision", "text" >>
        /\ m_out.answer = << >> <=> m_call.arg.text_response = << >>

\* C27 (as claimed): the context used while a batch processes image i, the
\* product code and type the parser falls back to for Make and Model
\* included, is derived from the path of image i only: the record parsed for
\* the image is the one the parser gives with the filename data of the image
\* itself, whatever an image viewed or processed before has left behind.
C27_OwnContextOnly ==
    (m_call.fn \in {"single_image_ai", "automated_batch_image"} /\ m_pc = "returned"
        /\ m_call.arg.text # << >>) =>
        m_out.metadata = parse_ai_response_for_metadata(m_call.arg.text,
                                                        own_filename_data(m_call.arg.path))

\* An automated batch thread is between switching tool use on and restoring it.
InFolderAnalysis(t) == kind[t] = "auto" /\ pc[t] = "analysis"

\* C29 (as claimed): once the folder analysis phase of _automated_batch_thread
\* is over, tool_use_enabled is what it was when the run started or, when the
\* user clicked the checkbox during the call, what the user chose: outside
\* the phase tool use is on exactly when the checkbox is ticked, and no run
\* leaves it on when it was off before.
C29_ToolUseRestored ==
    (\A t \in Threads : ~InFolderAnalysis(t)) => tool_use_enabled = chat_tool_use_var

\* C28 (as claimed): a run over N images makes exactly one progress update
\* {index, total, filename} per image, index going 1..N in increasing order
\* and total being N throughout, and the update for image i is made after
\* the result of image i has been recorded.
C28_ProgressAfterResult ==
    [][\A t \in Threads :
          /\ (progress'[t] # progress[t] /\ progress'[t] # NoProgress) =>
                /\ progress'[t].index = progress[t].index + 1
                /\ progress'[t].filename = images'[t][progress'[t].index]
                /\ progress'[t].total = Len(images'[t])
                /\ progress'[t].index <= Recorded(t)'
          /\ (pc[t] = "loop" /\ pc'[t] = "done") => progress[t].index = Len(images[t])
      ]_vars

\* The calls thread t sends or gets back in a step.
Sent(t) == {c \in inflight' \ inflight : c[1] = t}

=============================================================================
